---------------------------- MODULE Spec2Model ----------------------------
(***************************************************************************)
(* A model of the puzzle-solution repository: the number-theory helpers of *)
(* solutions/common/math.py, the string and grid helpers, the day-2        *)
(* document parser, the day-5 range remapping engine, the day-12          *)
(* arrangement counter, the day-14 platform tilting, the day-20 pulse      *)
(* simulator, the dispatch harness of solutions/run.py and the create and  *)
(* submit commands of manage.py.                                           *)
(*                                                                         *)
(* Pure functions are operators computed as the code computes them.  Each  *)
(* group of functions has its own specification: Init draws the arguments  *)
(* from bounded sets, one action per function applies it and records the   *)
(* outcome (a value or the exception raised).  The day-20 simulator is a   *)
(* state machine with one action per step of handle_signals.               *)
(***************************************************************************)
EXTENDS Integers, Sequences, FiniteSets, TLC

VARIABLES
    fn,       \* name of the function that has been applied, "none" before the call
    args,     \* the arguments drawn for the call
    ret,      \* the outcome of the call
    modules,  \* day 20: the module objects built by build_modules
    signals,  \* day 20: the list of pulses handle_signals still has to handle
    counts,   \* day 20: the pulses counted by part_1
    presses,  \* day 20: the button presses made so far
    yielded,  \* day 20: the pulse handle_signals has yielded and not yet handled
    button_counts,  \* day 20: the press numbers recorded by part_2
    log       \* day 20: the pulses sent, yielded and handled since the last press

day20vars == <<modules, signals, counts, presses, yielded, button_counts, log>>
vars == <<fn, args, ret, day20vars>>

\* The day-20 variables of a specification that does not run day 20.
NoDay20 ==
    /\ modules = <<>> /\ signals = <<>> /\ counts = <<>> /\ presses = 0
    /\ yielded = <<>> /\ button_counts = <<>> /\ log = <<>>

\* ------------------------------------------------------------------------
\* Bounds of the model
\* ------------------------------------------------------------------------
MaxInt == 9        \* extended_gcd arguments range over -MaxInt..MaxInt
MaxN == 120        \* prime_factors / factors arguments range over 1..MaxN
MaxLen == 2        \* congruence systems have at most MaxLen equations
MaxMod == 9        \* moduli range over 1..MaxMod
MaxRes == 3        \* residues range over -1..MaxRes

\* ------------------------------------------------------------------------
\* Python arithmetic and builtins used by the code
\* ------------------------------------------------------------------------
\* Python's // rounds towards minus infinity, % takes the sign of the divisor.
PyFloorDiv(a, b) == a \div b
PyMod(a, b) == a - b * (a \div b)

Abs(x) == IF x < 0 THEN -x ELSE x
Min(a, b) == IF a < b THEN a ELSE b
Max(a, b) == IF a > b THEN a ELSE b

Divides(d, x) == x % d = 0

\* math.gcd: the greatest common divisor, never negative, gcd(0, 0) = 0.
MathGcd(a, b) ==
    IF a = 0 /\ b = 0 THEN 0
    ELSE CHOOSE d \in 1..Max(Abs(a), Abs(b)) :
            /\ Divides(d, a) /\ Divides(d, b)
            /\ \A e \in 1..Max(Abs(a), Abs(b)) :
                  (Divides(e, a) /\ Divides(e, b)) => e <= d

RECURSIVE SeqProd(_)
SeqProd(s) == IF s = <<>> THEN 1 ELSE Head(s) * SeqProd(Tail(s))

\* An outcome of a call: the value returned, or the exception raised.
Returned(v) == [exc |-> "none", val |-> v]
Raised(e) == [exc |-> e, val |-> 0]

\* ------------------------------------------------------------------------
\* solutions/common/math.py
\* ------------------------------------------------------------------------
\* The faulty variant of the loop that stops one candidate early (i * i < n).
RECURSIVE prime_factors_loop_strict(_, _, _)
prime_factors_loop_strict(i, n, out) ==
    IF i * i < n
    THEN IF n % i # 0
         THEN prime_factors_loop_strict(i + 1, n, out)
         ELSE prime_factors_loop_strict(i, n \div i, Append(out, i))
    ELSE IF n > 1 THEN Append(out, n) ELSE out

RECURSIVE prime_factors_loop(_, _, _)
prime_factors_loop(i, n, out) ==
    IF i * i <= n
    THEN IF n % i # 0
         THEN prime_factors_loop(i + 1, n, out)
         ELSE prime_factors_loop(i, n \div i, Append(out, i))
    ELSE IF n > 1 THEN Append(out, n) ELSE out

\* The sequence of the values prime_factors(n) yields.
prime_factors(n) == prime_factors_loop(2, n, <<>>)

\* itertools.groupby: the maximal runs of equal consecutive elements.
RECURSIVE groupby(_)
groupby(s) ==
    IF s = <<>> THEN <<>>
    ELSE LET rest == groupby(Tail(s))
         IN IF rest # <<>> /\ Head(Head(rest)) = Head(s)
            THEN <<(<<Head(s)>> \o Head(rest))>> \o Tail(rest)
            ELSE <<(<<Head(s)>>)>> \o rest

\* The faulty variant of factors that yields the primes without grouping them.
factors_ungrouped(n) == prime_factors(n)

\* The sequence of the values factors(n) yields.
factors(n) ==
    LET groups == groupby(prime_factors(n))
    IN [k \in 1..Len(groups) |-> SeqProd(groups[k])]

RECURSIVE extended_gcd(_, _)
extended_gcd(a, b) ==
    IF b = 0 THEN <<a, 1, 0>>
    ELSE LET q == PyFloorDiv(a, b)
             r == PyMod(a, b)
             rec == extended_gcd(b, r)
         IN <<rec[1], rec[3], rec[2] - q * rec[3]>>

\* The faulty variant of the inverse that takes the coefficient of the extended
\* Euclidean algorithm without checking that the gcd is 1.
pow_inverse_unchecked(p, m) == Returned(PyMod(extended_gcd(p, m)[2], m))

\* pow(p, -1, m) for a modulus m >= 1: the inverse of p modulo m in 0..m-1
\* (0 when m = 1), ValueError when p is not invertible modulo m.
PowInverse(p, m) ==
    IF \E x \in 0..(m - 1) : (p * x) % m = 1 % m
    THEN Returned(CHOOSE x \in 0..(m - 1) : (p * x) % m = 1 % m)
    ELSE Raised("ValueError")

\* The terms of the generator summed by chinese_remainder, in order; the
\* first pow() that raises ends the evaluation.
RECURSIVE chinese_remainder_terms(_, _, _, _, _)
chinese_remainder_terms(n, a, n_prod, i, acc) ==
    IF i > Min(Len(n), Len(a)) THEN Returned(acc)
    ELSE LET p == PyFloorDiv(n_prod, n[i])
             inv == PowInverse(p, n[i])
         IN IF inv.exc # "none" THEN inv
            ELSE chinese_remainder_terms(n, a, n_prod, i + 1, acc + a[i] * p * inv.val)

\* The faulty variant of chinese_remainder without "or n_prod": it returns 0.
chinese_remainder_zero(n, a) ==
    LET n_prod == SeqProd(n)
        total == chinese_remainder_terms(n, a, n_prod, 1, 0)
    IN IF total.exc # "none" THEN total
       ELSE Returned(PyMod(total.val, n_prod))

chinese_remainder(n, a) ==
    LET n_prod == SeqProd(n)
        total == chinese_remainder_terms(n, a, n_prod, 1, 0)
    IN IF total.exc # "none" THEN total
       ELSE IF PyMod(total.val, n_prod) # 0
            THEN Returned(PyMod(total.val, n_prod))
            ELSE Returned(n_prod)

\* A Python dict, which keeps insertion order, as a sequence of <<key, value>>.
DictHas(d, k) == \E j \in 1..Len(d) : d[j][1] = k
DictIndex(d, k) == CHOOSE j \in 1..Len(d) : d[j][1] = k
DictGet(d, k, default) == IF DictHas(d, k) THEN d[DictIndex(d, k)][2] ELSE default
DictSet(d, k, v) ==
    IF DictHas(d, k) THEN [d EXCEPT ![DictIndex(d, k)] = <<k, v>>]
    ELSE Append(d, <<k, v>>)
DictDel(d, k) == SelectSeq(d, LAMBDA e : e[1] # k)
DictKeys(d) == [j \in 1..Len(d) |-> d[j][1]]
DictValues(d) == [j \in 1..Len(d) |-> d[j][2]]

\* sorted(keys, reverse=True)
RECURSIVE SortedReverse(_)
SortedReverse(s) ==
    IF s = <<>> THEN <<>>
    ELSE LET m == CHOOSE j \in 1..Len(s) : \A k \in 1..Len(s) : s[k] <= s[j]
         IN <<s[m]>> \o SortedReverse([k \in 1..(Len(s) - 1) |->
                                          IF k < m THEN s[k] ELSE s[k + 1]])

\* The state of _coprime_congruences: the dict and the exception raised, if any.
DictState(d) == [exc |-> "none", dict |-> d]
DictRaised(e) == [exc |-> e, dict |-> <<>>]

\* First loop: the dict of the equations, with the check for duplicate keys.
RECURSIVE coprime_input_dict(_, _, _, _)
coprime_input_dict(n, a, i, d) ==
    IF i > Min(Len(n), Len(a)) THEN DictState(d)
    ELSE IF DictGet(d, n[i], a[i]) # a[i] THEN DictRaised("ValueError")
         ELSE coprime_input_dict(n, a, i + 1, DictSet(d, n[i], a[i]))

\* Second loop, inner part: the factors of one n_i are entered into the dict.
RECURSIVE coprime_enter_factors(_, _, _, _)
coprime_enter_factors(fs, k, a_i, d) ==
    IF k > Len(fs) THEN DictState(d)
    ELSE IF PyMod(DictGet(d, fs[k], a_i), fs[k]) # PyMod(a_i, fs[k])
         THEN DictRaised("ValueError")
         ELSE coprime_enter_factors(fs, k + 1, a_i,
                                    DictSet(d, fs[k], PyMod(a_i, fs[k])))

\* Second loop: every element of the snapshot is replaced by its factors.
RECURSIVE coprime_factorize(_, _, _)
coprime_factorize(items, i, d) ==
    IF i > Len(items) THEN DictState(d)
    ELSE IF ~DictHas(d, items[i][1]) THEN DictRaised("KeyError")
         ELSE LET entered == coprime_enter_factors(factors(items[i][1]), 1, items[i][2],
                                                   DictDel(d, items[i][1]))
              IN IF entered.exc # "none" THEN entered
                 ELSE coprime_factorize(items, i + 1, entered.dict)

\* The faulty variant of the inner part of the third loop that removes the
\* divisors without comparing their residues.
RECURSIVE coprime_remove_divisors_unchecked(_, _, _, _)
coprime_remove_divisors_unchecked(factor, items, i, d) ==
    IF i > Len(items) THEN DictState(d)
    ELSE IF PyMod(factor, items[i][1]) = 0 /\ factor > items[i][1]
         THEN coprime_remove_divisors_unchecked(factor, items, i + 1,
                                                DictDel(d, items[i][1]))
         ELSE coprime_remove_divisors_unchecked(factor, items, i + 1, d)

\* Third loop, inner part: the keys that properly divide factor are removed.
RECURSIVE coprime_remove_divisors(_, _, _, _)
coprime_remove_divisors(factor, items, i, d) ==
    IF i > Len(items) THEN DictState(d)
    ELSE IF PyMod(factor, items[i][1]) = 0 /\ factor > items[i][1]
         THEN IF ~DictHas(d, factor) \/ ~DictHas(d, items[i][1])
              THEN DictRaised("KeyError")
              ELSE IF PyMod(DictGet(d, factor, 0), items[i][1])
                         # PyMod(items[i][2], items[i][1])
                   THEN DictRaised("ValueError")
                   ELSE coprime_remove_divisors(factor, items, i + 1,
                                                DictDel(d, items[i][1]))
         ELSE coprime_remove_divisors(factor, items, i + 1, d)

\* Third loop: over the keys of the dict, highest first.
RECURSIVE coprime_remove_duplicates(_, _, _)
coprime_remove_duplicates(keys, k, d) ==
    IF k > Len(keys) THEN DictState(d)
    ELSE LET removed == coprime_remove_divisors(keys[k], d, 1, d)
         IN IF removed.exc # "none" THEN removed
            ELSE coprime_remove_duplicates(keys, k + 1, removed.dict)

\* _coprime_congruences(n, a): the final dict (its keys are the new n, its
\* values the new a), or the exception raised.
_coprime_congruences(n, a) ==
    LET first == coprime_input_dict(n, a, 1, <<>>)
    IN IF first.exc # "none" THEN first
       ELSE LET second == coprime_factorize(first.dict, 1, first.dict)
            IN IF second.exc # "none" THEN second
               ELSE coprime_remove_duplicates(
                        SortedReverse(DictKeys(second.dict)), 1, second.dict)

\* chinese_remainder(*_coprime_congruences(n, a)): an empty dict unpacks to no
\* arguments at all, and the call raises TypeError.
chinese_remainder_generic(n, a) ==
    LET coprime == _coprime_congruences(n, a)
    IN IF coprime.exc # "none" THEN Raised(coprime.exc)
       ELSE IF coprime.dict = <<>> THEN Raised("TypeError")
            ELSE chinese_remainder(DictKeys(coprime.dict), DictValues(coprime.dict))

\* ------------------------------------------------------------------------
\* Specification of extended_gcd: a pair of integers is drawn, then applied
\* in the given and in the swapped order.
\* ------------------------------------------------------------------------
IntPairs == [a : (-MaxInt)..MaxInt, b : (-MaxInt)..MaxInt]

InitGcd ==
    /\ fn = "none"
    /\ args \in IntPairs
    /\ ret = <<>>
    /\ NoDay20

Call_extended_gcd ==
    /\ fn = "none"
    /\ fn' = "extended_gcd"
    /\ ret' = extended_gcd(args.a, args.b)
    /\ UNCHANGED <<args, day20vars>>

Call_extended_gcd_swapped ==
    /\ fn = "none"
    /\ fn' = "extended_gcd_swapped"
    /\ ret' = extended_gcd(args.b, args.a)
    /\ UNCHANGED <<args, day20vars>>

NextGcd == Call_extended_gcd \/ Call_extended_gcd_swapped

SpecGcd == InitGcd /\ [][NextGcd]_vars

\* ------------------------------------------------------------------------
\* Specification of prime_factors and factors: an integer n >= 1 is drawn.
\* ------------------------------------------------------------------------
InitFactors ==
    /\ fn = "none"
    /\ args \in 1..MaxN
    /\ ret = <<>>
    /\ NoDay20

Call_prime_factors ==
    /\ fn = "none"
    /\ fn' = "prime_factors"
    /\ ret' = prime_factors(args)
    /\ UNCHANGED <<args, day20vars>>

Call_factors ==
    /\ fn = "none"
    /\ fn' = "factors"
    /\ ret' = factors(args)
    /\ UNCHANGED <<args, day20vars>>

NextFactors == Call_prime_factors \/ Call_factors

SpecFactors == InitFactors /\ [][NextFactors]_vars

\* ------------------------------------------------------------------------
\* Specification of chinese_remainder and chinese_remainder_generic: a
\* system of congruences x = a[i] (mod n[i]) with positive moduli is drawn.
\* ------------------------------------------------------------------------
Systems ==
    UNION { [n : [1..len -> 1..MaxMod], a : [1..len -> (-1)..MaxRes]] : len \in 0..MaxLen }

InitCrt ==
    /\ fn = "none"
    /\ args \in Systems
    /\ ret = Raised("pending")
    /\ NoDay20

Call_chinese_remainder ==
    /\ fn = "none"
    /\ fn' = "chinese_remainder"
    /\ ret' = chinese_remainder(args.n, args.a)
    /\ UNCHANGED <<args, day20vars>>

Call_chinese_remainder_generic ==
    /\ fn = "none"
    /\ fn' = "chinese_remainder_generic"
    /\ ret' = chinese_remainder_generic(args.n, args.a)
    /\ UNCHANGED <<args, day20vars>>

NextCrt == Call_chinese_remainder \/ Call_chinese_remainder_generic

SpecCrt == InitCrt /\ [][NextCrt]_vars

\* ------------------------------------------------------------------------
\* Properties of solutions/common/math.py
\* ------------------------------------------------------------------------
IsPrime(p) == p > 1 /\ \A d \in 2..(p - 1) : p % d # 0

\* x satisfies every congruence of the system.
Satisfies(x, n, a) == \A i \in 1..Len(n) : PyMod(x - a[i], n[i]) = 0
Solvable(n, a) == \E x \in 1..SeqProd(n) : Satisfies(x, n, a)
PairwiseCoprime(n) ==
    \A i, j \in 1..Len(n) : i < j => MathGcd(n[i], n[j]) = 1

\* C4: for any two integers a and b, extended_gcd(a, b) returns (g, x, y)
\* with g = gcd(a, b) and a*x + b*y = g, also with the arguments swapped.
C4_ExtendedGcd ==
    /\ fn = "extended_gcd" =>
          /\ ret[1] = MathGcd(args.a, args.b)
          /\ args.a * ret[2] + args.b * ret[3] = ret[1]
    /\ fn = "extended_gcd_swapped" =>
          /\ ret[1] = MathGcd(args.b, args.a)
          /\ args.a * ret[3] + args.b * ret[2] = ret[1]

\* C5: for pairwise coprime positive moduli and any residues,
\* chinese_remainder(n, a) returns an x that satisfies every congruence and
\* lies in 1..prod(n) (prod(n) standing in for 0).
C5_ChineseRemainder ==
    (fn = "chinese_remainder" /\ PairwiseCoprime(args.n)) =>
        /\ ret.exc = "none"
        /\ Satisfies(ret.val, args.n, args.a)
        /\ ret.val \in 1..SeqProd(args.n)

\* Two coprime moduli above 1 whose solution modulo prod(n) is 0.
C5_Witness ==
    /\ fn = "chinese_remainder"
    /\ Len(args.n) = 2 /\ args.n[1] > 1 /\ args.n[2] > 1
    /\ PairwiseCoprime(args.n)
    /\ Satisfies(0, args.n, args.a)
    /\ ret = Returned(SeqProd(args.n))

\* C6: chinese_remainder raises ValueError, and returns no number, whenever
\* two of the given positive moduli share a common factor greater than 1.
C6_ChineseRemainderError ==
    (fn = "chinese_remainder" /\ ~PairwiseCoprime(args.n)) => ret.exc = "ValueError"

\* The moduli 4 and 6 of the test, which raise ValueError.
C6_Witness ==
    /\ fn = "chinese_remainder"
    /\ args.n = <<4, 6>> /\ args.a = <<3, 0>>
    /\ ret.exc = "ValueError"

\* C7: for positive moduli, coprime or not, and residues for which some
\* integer satisfies all congruences, chinese_remainder_generic(n, a)
\* returns an x that satisfies every congruence.
C7_ChineseRemainderGeneric ==
    (fn = "chinese_remainder_generic" /\ Solvable(args.n, args.a)) =>
        /\ ret.exc = "none"
        /\ Satisfies(ret.val, args.n, args.a)

\* C8: chinese_remainder_generic raises ValueError whenever no integer
\* satisfies all the congruences; it never returns a number for such a system.
C8_ChineseRemainderGenericError ==
    (fn = "chinese_remainder_generic" /\ ~Solvable(args.n, args.a)) =>
        ret.exc = "ValueError"

\* The contradicting system x = 1 (mod 2), x = 2 (mod 4) of the test, whose
\* contradiction only the removal of duplicate factors can find.
C8_Witness ==
    /\ fn = "chinese_remainder_generic"
    /\ args.n = <<2, 4>> /\ args.a = <<1, 2>>
    /\ ~Solvable(args.n, args.a)
    /\ ret.exc = "ValueError"

\* C9: for n >= 1, prime_factors(n) yields only primes, in non-decreasing
\* order, with repetition, and their product is n (nothing for n = 1).
C9_PrimeFactors ==
    fn = "prime_factors" =>
        /\ \A k \in 1..Len(ret) : IsPrime(ret[k])
        /\ \A k \in 1..(Len(ret) - 1) : ret[k] <= ret[k + 1]
        /\ SeqProd(ret) = args
        /\ args = 1 => ret = <<>>

\* A number with repeated primes: 2 * 2 * 3 * 5.
C9_Witness ==
    /\ fn = "prime_factors"
    /\ args = 60
    /\ ret = <<2, 2, 3, 5>>

\* p to the highest power that divides n.
RECURSIVE FullPower(_, _)
FullPower(p, n) == IF n % p = 0 THEN p * FullPower(p, n \div p) ELSE 1

\* C10: for n >= 1, factors(n) yields one number per distinct prime of n,
\* each the full power of that prime dividing n: the numbers are pairwise
\* coprime, no prime occurs in two of them, and their product is n.
C10_Factors ==
    fn = "factors" =>
        LET primes == {p \in 2..args : IsPrime(p) /\ args % p = 0}
        IN /\ Len(ret) = Cardinality(primes)
           /\ \A p \in primes : \E k \in 1..Len(ret) : ret[k] = FullPower(p, args)
           /\ \A p \in primes : Cardinality({k \in 1..Len(ret) : ret[k] % p = 0}) = 1
           /\ PairwiseCoprime(ret)
           /\ SeqProd(ret) = args

\* A number with two repeated primes: 2 * 2 * 5 * 5.
C10_Witness ==
    /\ fn = "factors"
    /\ args = 100
    /\ ret = <<4, 25>>

\* ------------------------------------------------------------------------
\* solutions/year2023/day05.py
\* ------------------------------------------------------------------------
D5MaxPos == 2      \* seed starts, mapping sources and destinations: 0..D5MaxPos
D5MaxSize == 3     \* seed lengths: 1..D5MaxSize, mapping sizes: 0..D5MaxSize

\* Range(start, size)
Range(start, size) == [start |-> start, stop |-> start + size]
RangeLen(r) == r.stop - r.start
RangeContains(r, item) == r.start <= item /\ item < r.stop

\* Range.__and__: the intersection, Range(0, 0) when it is empty.
RangeAnd(self, other) ==
    LET start == Max(self.start, other.start)
        end == Min(self.stop, other.stop)
        length == end - start
    IN IF length > 0 THEN Range(start, length) ELSE Range(0, 0)

RangeAdd(self, other) == Range(self.start + other, RangeLen(self))
RangeSub(self, other) == Range(self.start - other, RangeLen(self))

\* Range.cut without the part of self after other
cut_before_only(self, other) ==
    IF self.start < other.start
    THEN <<Range(self.start, other.start - self.start)>> ELSE <<>>

\* Range.cut: the parts of self before and after other.
cut(self, other) ==
    (IF self.start < other.start
     THEN <<Range(self.start, other.start - self.start)>> ELSE <<>>)
    \o (IF self.stop > other.stop
        THEN <<Range(other.stop, self.stop - other.stop)>> ELSE <<>>)

MappingItem(range, difference) == [range |-> range, difference |-> difference]
source_range(item) == item.range
target_range(item) == RangeAdd(item.range, item.difference)

\* A section is the sequence of its "destination source size" lines, each a
\* triple of integers; the result keeps the order of the lines.
_parse_mappings(sections) ==
    [m \in 1..Len(sections) |->
        [k \in 1..Len(sections[m]) |->
            MappingItem(Range(sections[m][k][2], sections[m][k][3]),
                        sections[m][k][1] - sections[m][k][2])]]

_convert_value(value, mapping) ==
    IF \E k \in 1..Len(mapping) : RangeContains(source_range(mapping[k]), value)
    THEN LET first == CHOOSE k \in 1..Len(mapping) :
                         /\ RangeContains(source_range(mapping[k]), value)
                         /\ \A j \in 1..(k - 1) :
                               ~RangeContains(source_range(mapping[j]), value)
         IN value + mapping[first].difference
    ELSE value

RECURSIVE Flatten(_)
Flatten(ss) == IF ss = <<>> THEN <<>> ELSE Head(ss) \o Flatten(Tail(ss))

\* The faulty variant of _convert_range that yields the remainders of the cut
\* as they are, without converting them with the rest of the mapping.
convert_range_remainders_unconverted(range, mapping) ==
    LET overlaps == {k \in 1..Len(mapping) :
                        RangeLen(RangeAnd(target_range(range),
                                          source_range(mapping[k]))) # 0}
    IN IF overlaps = {} THEN <<range>>
       ELSE LET k == CHOOSE j \in overlaps : \A o \in overlaps : j <= o
                overlap == RangeAnd(target_range(range), source_range(mapping[k]))
                remainders == cut(target_range(range), source_range(mapping[k]))
            IN <<MappingItem(RangeSub(overlap, range.difference),
                             range.difference + mapping[k].difference)>>
               \o [r \in 1..Len(remainders) |->
                      MappingItem(RangeSub(remainders[r], range.difference),
                                  range.difference)]

\* _convert_range(range, mapping): the sequence of the items it yields.  The
\* first mapping item that overlaps the target range decides; the remainders
\* of the cut are converted with the whole mapping again.
RECURSIVE _convert_range(_, _)
_convert_range(range, mapping) ==
    LET overlaps == {k \in 1..Len(mapping) :
                        RangeLen(RangeAnd(target_range(range),
                                          source_range(mapping[k]))) # 0}
    IN IF overlaps = {} THEN <<range>>
       ELSE LET k == CHOOSE j \in overlaps : \A o \in overlaps : j <= o
                overlap == RangeAnd(target_range(range), source_range(mapping[k]))
                remainders == cut(target_range(range), source_range(mapping[k]))
            IN <<MappingItem(RangeSub(overlap, range.difference),
                             range.difference + mapping[k].difference)>>
               \o Flatten([r \in 1..Len(remainders) |->
                              _convert_range(
                                  MappingItem(RangeSub(remainders[r], range.difference),
                                              range.difference),
                                  mapping)])

SeqMin(s) == CHOOSE v \in {s[k] : k \in 1..Len(s)} : \A k \in 1..Len(s) : v <= s[k]

\* functools.reduce(_convert_value, mappings, seed)
RECURSIVE reduce_convert_value(_, _)
reduce_convert_value(mappings, seed) ==
    IF mappings = <<>> THEN seed
    ELSE reduce_convert_value(Tail(mappings), _convert_value(seed, Head(mappings)))

\* The loop of part_2 over the mappings: every seed range is converted.
RECURSIVE part_2_loop(_, _)
part_2_loop(mappings, seed_ranges) ==
    IF mappings = <<>> THEN seed_ranges
    ELSE part_2_loop(Tail(mappings),
                     Flatten([k \in 1..Len(seed_ranges) |->
                                 _convert_range(seed_ranges[k], Head(mappings))]))

\* A document is its seeds line, a sequence of <<start, length>> pairs, and
\* its mapping sections.
part_2(document) ==
    LET mappings == _parse_mappings(document.sections)
        seed_ranges == [k \in 1..Len(document.seeds) |->
                           MappingItem(Range(document.seeds[k][1], document.seeds[k][2]), 0)]
        final == part_2_loop(mappings, seed_ranges)
    IN SeqMin([k \in 1..Len(final) |-> target_range(final[k]).start])

part_2_naive(document) ==
    LET mappings == _parse_mappings(document.sections)
        seeds == Flatten([k \in 1..Len(document.seeds) |->
                             [j \in 1..document.seeds[k][2] |->
                                 document.seeds[k][1] + j - 1]])
    IN SeqMin([k \in 1..Len(seeds) |-> reduce_convert_value(mappings, seeds[k])])

\* Specification of day 5: an almanac is drawn, part_2 and part_2_naive are
\* applied to it, in any order.
D5Lines == (0..D5MaxPos) \X (0..D5MaxPos) \X (0..D5MaxSize)
D5SeedPairs == (0..D5MaxPos) \X (1..D5MaxSize)

\* The almanacs: the number of seed ranges and of lines per mapping section.
D5Shapes == { [seeds |-> 1, lines |-> <<>>],
              [seeds |-> 1, lines |-> <<1>>],
              [seeds |-> 1, lines |-> <<2>>],
              [seeds |-> 1, lines |-> <<1, 1>>],
              [seeds |-> 2, lines |-> <<1>>] }

RECURSIVE SeqsOf(_, _)
SeqsOf(S, len) ==
    IF len = 0 THEN {<<>>}
    ELSE {Append(q, x) : q \in SeqsOf(S, len - 1), x \in S}

RECURSIVE SectionsOf(_)
SectionsOf(lines) ==
    IF lines = <<>> THEN {<<>>}
    ELSE {<<h>> \o t : h \in SeqsOf(D5Lines, Head(lines)), t \in SectionsOf(Tail(lines))}

Almanacs ==
    UNION { [seeds : SeqsOf(D5SeedPairs, shape.seeds), sections : SectionsOf(shape.lines)]
            : shape \in D5Shapes }

Pending == Raised("pending")

InitDay05 ==
    /\ fn = "none"
    /\ args \in Almanacs
    /\ ret = [part_2 |-> Pending, part_2_naive |-> Pending]
    /\ NoDay20

Call_part_2 ==
    /\ ret.part_2 = Pending
    /\ fn' = "day05"
    /\ ret' = [ret EXCEPT !.part_2 = Returned(part_2(args))]
    /\ UNCHANGED <<args, day20vars>>

Call_part_2_naive ==
    /\ ret.part_2_naive = Pending
    /\ fn' = "day05"
    /\ ret' = [ret EXCEPT !.part_2_naive = Returned(part_2_naive(args))]
    /\ UNCHANGED <<args, day20vars>>

NextDay05 == Call_part_2 \/ Call_part_2_naive

SpecDay05 == InitDay05 /\ [][NextDay05]_vars

\* C1: for every almanac whose seed ranges have length >= 1, part_2 returns
\* the same lowest location number as part_2_naive.
C1_Part2EqualsNaive ==
    (fn = "day05" /\ ret.part_2 # Pending /\ ret.part_2_naive # Pending) =>
        ret.part_2 = ret.part_2_naive

\* A seed range cut in the middle by the first line of a mapping, so that two
\* remainders are converted again, the second line moving one of them to the
\* lowest location.
C1_Witness ==
    /\ fn = "day05" /\ ret.part_2 # Pending /\ ret.part_2_naive # Pending
    /\ Len(args.seeds) = 1 /\ Len(args.sections) = 1 /\ Len(args.sections[1]) = 2
    /\ LET seed == Range(args.seeds[1][1], args.seeds[1][2])
           items == _parse_mappings(args.sections)[1]
       IN /\ Len(cut(seed, source_range(items[1]))) = 2
          /\ RangeLen(RangeAnd(seed, source_range(items[2]))) > 0
          /\ ret.part_2.val < seed.start
    /\ ret.part_2 = ret.part_2_naive

\* ------------------------------------------------------------------------
\* solutions/year2023/day20.py
\* ------------------------------------------------------------------------
Presses == 1000    \* part_1 pushes the button 1000 times
Invocations == 2   \* part_1 is invoked this many times in a row
MaxPresses == 6    \* part_2 gives up after this many button presses

\* A definition line "<type><name> -> <destinations>" as the three groups
\* DEFINITION_RE finds in it.
Definition(type, name, destinations) ==
    [type |-> type, name |-> name, destinations |-> destinations]

SeqToSet(q) == {q[k] : k \in 1..Len(q)}

DefinedNames(definitions) == {definitions[k].name : k \in 1..Len(definitions)}
DefinitionOf(definitions, name) ==
    definitions[CHOOSE k \in 1..Len(definitions) :
                    /\ definitions[k].name = name
                    /\ \A j \in (k + 1)..Len(definitions) : definitions[j].name # name]

\* The names of all the modules build_modules creates.
ModuleNames(definitions) ==
    DefinedNames(definitions)
        \cup UNION {SeqToSet(definitions[k].destinations) : k \in 1..Len(definitions)}
        \cup {"button"}

\* Module.outputs is a set of Module objects.
OutputSet(definitions, name) ==
    IF name = "button" THEN {"broadcaster"}
    ELSE IF name \in DefinedNames(definitions)
         THEN SeqToSet(DefinitionOf(definitions, name).destinations)
         ELSE {}

Enumerations(S) ==
    {q \in [1..Cardinality(S) -> S] : \A i, j \in 1..Cardinality(S) : q[i] = q[j] => i = j}

\* The orders in which "for output in self.outputs" may visit the outputs of
\* every module: a set of objects hashed by their address has no order the
\* program fixes, but the order of one set stays the same while it is unchanged.
RECURSIVE OutputOrdersOf(_, _)
OutputOrdersOf(definitions, names) ==
    IF names = {} THEN {<<>>}
    ELSE LET name == CHOOSE n \in names : TRUE
         IN {(name :> order) @@ others :
                order \in Enumerations(OutputSet(definitions, name)),
                others \in OutputOrdersOf(definitions, names \ {name})}

OutputOrders(definitions) == OutputOrdersOf(definitions, ModuleNames(definitions))

ModuleKind(definitions, name) ==
    IF name = "button" THEN "Button"
    ELSE IF name \notin DefinedNames(definitions) THEN "Module"
    ELSE LET definition == DefinitionOf(definitions, name)
         IN IF definition.type = "%" THEN "FlipFlop"
            ELSE IF definition.type = "&" THEN "Conjunction"
            ELSE "Broadcaster"

\* build_modules(definitions): new module objects, every flip-flop off, every
\* conjunction remembering Low for each of its inputs.  order is the iteration
\* order of the output sets of the objects built.
build_modules(definitions, order) ==
    LET names == ModuleNames(definitions)
        inputs == [name \in names |->
                      {sender \in names : name \in OutputSet(definitions, sender)}]
        flipflops == {name \in names : ModuleKind(definitions, name) = "FlipFlop"}
        conjunctions == {name \in names : ModuleKind(definitions, name) = "Conjunction"}
    IN [kind |-> [name \in names |-> ModuleKind(definitions, name)],
        outputs |-> order,
        inputs |-> inputs,
        state |-> [name \in flipflops |-> FALSE],
        memory |-> [name \in conjunctions |-> [sender \in inputs[name] |-> "Low"]]]

\* receive of a module: the signal to send ("None" for none) and the modules
\* after the call.
\* FlipFlop.receive with the pulse chosen by the state before the flip
FlipFlop_receive_before_flip(mods, sender, receiver, signal) ==
    IF signal = "Low"
    THEN [next |-> IF mods.state[receiver] THEN "High" ELSE "Low",
          mods |-> [mods EXCEPT !.state[receiver] = ~mods.state[receiver]]]
    ELSE [next |-> "None", mods |-> mods]

\* FlipFlop.receive
FlipFlop_receive(mods, sender, receiver, signal) ==
    IF signal = "Low"
    THEN [next |-> IF ~mods.state[receiver] THEN "High" ELSE "Low",
          mods |-> [mods EXCEPT !.state[receiver] = ~mods.state[receiver]]]
    ELSE [next |-> "None", mods |-> mods]

\* Conjunction.receive with the pulse chosen by the memory before the update
Conjunction_receive_before_update(mods, sender, receiver, signal) ==
    LET memory == [s \in (DOMAIN mods.memory[receiver]) \cup {sender} |->
                      IF s = sender THEN signal ELSE mods.memory[receiver][s]]
    IN [next |-> IF \A s \in DOMAIN mods.memory[receiver] :
                        mods.memory[receiver][s] = "High"
                 THEN "Low" ELSE "High",
        mods |-> [mods EXCEPT !.memory[receiver] = memory]]

\* Conjunction.receive
Conjunction_receive(mods, sender, receiver, signal) ==
    LET memory == [s \in (DOMAIN mods.memory[receiver]) \cup {sender} |->
                      IF s = sender THEN signal ELSE mods.memory[receiver][s]]
    IN [next |-> IF \A s \in DOMAIN memory : memory[s] = "High"
                 THEN "Low" ELSE "High",
        mods |-> [mods EXCEPT !.memory[receiver] = memory]]

\* receiver.receive(sender, signal), by the class of the receiver.
receive(mods, sender, receiver, signal) ==
    LET kind == mods.kind[receiver]
    IN IF kind = "FlipFlop" THEN FlipFlop_receive(mods, sender, receiver, signal)
       ELSE IF kind = "Conjunction" THEN Conjunction_receive(mods, sender, receiver, signal)
       ELSE IF kind = "Broadcaster" THEN [next |-> signal, mods |-> mods]
       ELSE IF kind = "Button" THEN [next |-> "Low", mods |-> mods]
       ELSE [next |-> "None", mods |-> mods]


\* receiver.handle(sender, signal): the (sender, receiver, signal) tuples it
\* yields, one per output, and the modules after the call.
handle(mods, sender, receiver, signal) ==
    LET received == receive(mods, sender, receiver, signal)
    IN [sent |-> IF received.next = "None" THEN <<>>
                 ELSE [k \in 1..Len(mods.outputs[receiver]) |->
                          <<receiver, mods.outputs[receiver][k], received.next>>],
        mods |-> received.mods]

\* button.press()
press(mods) == handle(mods, "button", "button", "Low")

\* The module definitions part_1 is invoked with.
DefBroadcaster(destinations) == Definition("", "broadcaster", destinations)
DefFlipFlop(name, destinations) == Definition("%", name, destinations)
DefConjunction(name, destinations) == Definition("&", name, destinations)

Networks == {
    \* a four-bit ripple counter
    << DefBroadcaster(<<"a">>), DefFlipFlop("a", <<"b">>), DefFlipFlop("b", <<"c">>),
       DefFlipFlop("c", <<"d">>), DefFlipFlop("d", <<"output">>) >>,
    \* the second example of the puzzle
    << DefBroadcaster(<<"a">>), DefFlipFlop("a", <<"inv", "con">>), DefConjunction("inv", <<"b">>),
       DefFlipFlop("b", <<"con">>), DefConjunction("con", <<"output">>) >>,
    \* a flip-flop and an inverter that feed one conjunction
    << DefBroadcaster(<<"a", "i">>), DefFlipFlop("a", <<"c">>), DefConjunction("i", <<"c">>),
       DefConjunction("c", <<"output">>) >> }

\* Definitions with a module rx for part_2.
RxNetworks == {
    \* rx behind a conjunction that is defined before its two inputs
    << DefConjunction("x", <<"rx">>), DefBroadcaster(<<"a">>),
       DefFlipFlop("a", <<"x", "b">>), DefFlipFlop("b", <<"x">>) >>,
    \* rx behind a conjunction fed by the inverters of a one-bit and a two-bit counter
    << DefBroadcaster(<<"a", "b">>), DefFlipFlop("a", <<"ia">>), DefConjunction("ia", <<"x">>),
       DefFlipFlop("b", <<"c">>), DefFlipFlop("c", <<"ic">>), DefConjunction("ic", <<"x">>),
       DefConjunction("x", <<"rx">>) >>,
    \* rx behind a flip-flop
    << DefBroadcaster(<<"a">>), DefFlipFlop("a", <<"rx">>) >> }

EmptyLog == [sent |-> <<>>, yielded |-> <<>>, handled |-> <<>>]

InitDay20 ==
    /\ fn = "none"
    /\ args \in Networks
    /\ ret = <<>>
    /\ NoDay20

InitDay20Parts ==
    /\ fn = "none"
    /\ args \in Networks \cup RxNetworks
    /\ ret = <<>>
    /\ NoDay20

\* part_1 is called: build_modules, counts = {Low: 0, High: 0}.
Call_part_1 ==
    /\ fn = "none"
    /\ Len(ret) < Invocations
    /\ \E order \in OutputOrders(args) : modules' = build_modules(args, order)
    /\ counts' = [Low |-> 0, High |-> 0]
    /\ presses' = 0
    /\ signals' = <<>>
    /\ yielded' = <<>>
    /\ log' = EmptyLog
    /\ fn' = "part_1"
    /\ UNCHANGED <<args, ret, button_counts>>

\* next(iter(modules["rx"].inputs))
rx_input(mods) == CHOOSE m \in mods.inputs["rx"] : TRUE

\* part_2 is called: build_modules, the two assertions about rx, and
\* button_counts = 0 for every input of rx_input.  A KeyError or an
\* AssertionError ends the run.
Call_day20_part_2 ==
    /\ fn = "none"
    /\ Len(ret) < Invocations
    /\ \E order \in OutputOrders(args) :
          LET built == build_modules(args, order)
          IN /\ modules' = built
             /\ IF "rx" \notin DOMAIN built.kind
                THEN fn' = "KeyError" /\ button_counts' = <<>>
                ELSE IF Cardinality(built.inputs["rx"]) # 1
                THEN fn' = "AssertionError" /\ button_counts' = <<>>
                ELSE IF built.kind[rx_input(built)] # "Conjunction"
                THEN fn' = "AssertionError" /\ button_counts' = <<>>
                ELSE /\ fn' = "part_2"
                     /\ button_counts' = [m \in built.inputs[rx_input(built)] |-> 0]
    /\ presses' = 0
    /\ signals' = <<>>
    /\ yielded' = <<>>
    /\ log' = EmptyLog
    /\ UNCHANGED <<args, ret, counts>>

\* The button is pushed although handle_signals has not come to its end
PressButton_while_processing ==
    /\ fn \in {"part_1", "part_2"}
    /\ yielded = <<>>
    /\ IF fn = "part_1" THEN presses < Presses
       ELSE /\ presses < MaxPresses
            /\ presses = 0 \/ \E m \in DOMAIN button_counts : button_counts[m] = 0
    /\ signals' = signals \o press(modules).sent
    /\ modules' = press(modules).mods
    /\ presses' = presses + 1
    /\ log' = [sent |-> press(modules).sent, yielded |-> <<>>, handled |-> <<>>]
    /\ UNCHANGED <<fn, args, ret, counts, yielded, button_counts>>

\* The next iteration of "for _ in range(1000)" of part_1, or of "for i in
\* itertools.count(start=1)" of part_2 when the loop has not been left:
\* handle_signals is called and presses the button.
PressButton ==
    /\ fn \in {"part_1", "part_2"}
    /\ signals = <<>>
    /\ yielded = <<>>
    /\ IF fn = "part_1" THEN presses < Presses
       ELSE /\ presses < MaxPresses
            /\ presses = 0 \/ \E m \in DOMAIN button_counts : button_counts[m] = 0
    /\ signals' = press(modules).sent
    /\ modules' = press(modules).mods
    /\ presses' = presses + 1
    /\ log' = [sent |-> press(modules).sent, yielded |-> <<>>, handled |-> <<>>]
    /\ UNCHANGED <<fn, args, ret, counts, yielded, button_counts>>

\* The last pulse of the list is popped and yielded
YieldSignal_last ==
    /\ fn \in {"part_1", "part_2"}
    /\ signals # <<>>
    /\ yielded = <<>>
    /\ LET pulse == signals[Len(signals)]
       IN /\ yielded' = pulse
          /\ signals' = SubSeq(signals, 1, Len(signals) - 1)
          /\ log' = [log EXCEPT !.yielded = Append(@, pulse)]
          /\ IF fn = "part_1"
             THEN /\ counts' = [counts EXCEPT ![pulse[3]] = @ + 1]
                  /\ UNCHANGED button_counts
             ELSE /\ button_counts' =
                        IF /\ pulse[2] = rx_input(modules)
                           /\ pulse[3] = "High"
                           /\ button_counts[pulse[1]] = 0
                        THEN [button_counts EXCEPT ![pulse[1]] = presses]
                        ELSE button_counts
                  /\ UNCHANGED counts
    /\ UNCHANGED <<fn, args, ret, modules, presses>>

\* "while signals": the first pulse is popped and yielded to the caller, which
\* runs the body of its loop: part_1 counts the pulse, part_2 records the
\* number of the press at the first High pulse of a sender to rx_input.
YieldSignal ==
    /\ fn \in {"part_1", "part_2"}
    /\ signals # <<>>
    /\ yielded = <<>>
    /\ LET pulse == Head(signals)
       IN /\ yielded' = pulse
          /\ signals' = Tail(signals)
          /\ log' = [log EXCEPT !.yielded = Append(@, pulse)]
          /\ IF fn = "part_1"
             THEN /\ counts' = [counts EXCEPT ![pulse[3]] = @ + 1]
                  /\ UNCHANGED button_counts
             ELSE /\ button_counts' =
                        IF /\ pulse[2] = rx_input(modules)
                           /\ pulse[3] = "High"
                           /\ button_counts[pulse[1]] = 0
                        THEN [button_counts EXCEPT ![pulse[1]] = presses]
                        ELSE button_counts
                  /\ UNCHANGED counts
    /\ UNCHANGED <<fn, args, ret, modules, presses>>

\* handle_signals is resumed: the receiver handles the pulse that was yielded
\* and the pulses it sends are added to the end of the list.
HandleSignal ==
    /\ fn \in {"part_1", "part_2"}
    /\ yielded # <<>>
    /\ LET handled == handle(modules, yielded[1], yielded[2], yielded[3])
       IN /\ signals' = signals \o handled.sent
          /\ modules' = handled.mods
          /\ log' = [log EXCEPT !.sent = @ \o handled.sent,
                                !.handled = Append(@, yielded)]
    /\ yielded' = <<>>
    /\ UNCHANGED <<fn, args, ret, counts, presses, button_counts>>

\* part_1 returns math.prod(counts.values()).
Return_part_1 ==
    /\ fn = "part_1"
    /\ signals = <<>>
    /\ yielded = <<>>
    /\ presses = Presses
    /\ ret' = Append(ret, counts.Low * counts.High)
    /\ fn' = "none"
    /\ UNCHANGED <<args, day20vars>>

\* math.lcm of the values of a dict.
RECURSIVE math_lcm(_)
math_lcm(values) ==
    IF values = {} THEN 1
    ELSE LET v == CHOOSE v \in values : TRUE
             rest == math_lcm(values \ {v})
         IN IF v = 0 \/ rest = 0 THEN 0 ELSE (v * rest) \div MathGcd(v, rest)

\* part_2 leaves its loop after a press when every count is set and returns
\* math.lcm(*button_counts.values()).
Return_day20_part_2 ==
    /\ fn = "part_2"
    /\ signals = <<>>
    /\ yielded = <<>>
    /\ presses > 0
    /\ \A m \in DOMAIN button_counts : button_counts[m] # 0
    /\ ret' = Append(ret, math_lcm({button_counts[m] : m \in DOMAIN button_counts}))
    /\ fn' = "none"
    /\ UNCHANGED <<args, day20vars>>

NextDay20 == Call_part_1 \/ PressButton \/ YieldSignal \/ HandleSignal \/ Return_part_1

SpecDay20 == InitDay20 /\ [][NextDay20]_vars

NextDay20Parts == NextDay20 \/ Call_day20_part_2 \/ Return_day20_part_2

SpecDay20Parts == InitDay20Parts /\ [][NextDay20Parts]_vars


\* C2: two successive invocations of part_1 on the same module definitions
\* return the same value.
C2_SameValue == \A i, j \in 1..Len(ret) : ret[i] = ret[j]

\* Every invocation of part_1 starts with all flip-flops off and all
\* conjunction memories Low, whatever the invocation before left behind.
C2_FreshModules ==
    (fn = "part_1" /\ presses = 0) =>
        /\ \A m \in DOMAIN modules.state : modules.state[m] = FALSE
        /\ \A m \in DOMAIN modules.memory :
              \A sender \in DOMAIN modules.memory[m] : modules.memory[m][sender] = "Low"

\* ------------------------------------------------------------------------
\* solutions/run.py
\* ------------------------------------------------------------------------
MaxData == 3       \* the raw input has at most MaxData characters

\* A str is the sequence of its characters; "LF" and "CR" are the line breaks.
Characters == {"#", ".", "LF", "CR"}

\* str.splitlines(): the lines without their line breaks, "\r\n" being one
\* break; a trailing line break opens no further line.
RECURSIVE splitlines_from(_, _, _, _)
splitlines_from(data, i, line, lines) ==
    IF i > Len(data) THEN IF line = <<>> THEN lines ELSE Append(lines, line)
    ELSE IF data[i] = "LF" THEN splitlines_from(data, i + 1, <<>>, Append(lines, line))
    ELSE IF data[i] = "CR"
         THEN IF i < Len(data) /\ data[i + 1] = "LF"
              THEN splitlines_from(data, i + 2, <<>>, Append(lines, line))
              ELSE splitlines_from(data, i + 1, <<>>, Append(lines, line))
    ELSE splitlines_from(data, i + 1, Append(line, data[i]), lines)

splitlines(data) == splitlines_from(data, 1, <<>>, <<>>)

\* The argument handed to the solution function: its Python type and value.
\* Grid.__init__ keeps the rows as given; FrozenGrid.__init__ turns them into
\* a tuple of tuples, the same sequence of sequences of characters here.
PyList(lines) == [type |-> "list", value |-> lines]
PyStr(data) == [type |-> "str", value |-> <<data>>]
Grid(rows) == [type |-> "Grid", value |-> rows]
FrozenGrid(rows) == [type |-> "FrozenGrid", value |-> rows]
RepeatingGrid(rows) == [type |-> "RepeatingGrid", value |-> rows]
NotCalled == [type |-> "not called", value |-> <<>>]

\* The values a solution function returns: ints, floats and complex numbers
\* (counted in halves, so that 7.5 is twice_real = 15), and strings.
PyInt(v) == [type |-> "int", twice_real |-> 2 * v, twice_imag |-> 0]
PyFloat(twice) == [type |-> "float", twice_real |-> twice, twice_imag |-> 0]
PyComplex(twice_re, twice_im) ==
    [type |-> "complex", twice_real |-> twice_re, twice_imag |-> twice_im]
PyOther == [type |-> "str", twice_real |-> 0, twice_imag |-> 0]

\* The outcome of run_function: the exception raised ("none" for none), the
\* argument the solution function was called with, and the value returned.
RunOutcome(exc, received, result) == [exc |-> exc, received |-> received, result |-> result]

\* "Ensure we return an int when we can": int(result) of a complex raises TypeError.
run_function_result(received, result) ==
    IF /\ result.type \in {"float", "complex"}
       /\ result.twice_imag = 0
       /\ result.twice_real % 2 = 0
    THEN IF result.type = "complex" THEN RunOutcome("TypeError", received, PyOther)
         ELSE RunOutcome("none", received, PyInt(result.twice_real \div 2))
    ELSE RunOutcome("none", received, result)

\* The faulty variant of run_function that falls back to the raw string for an
\* annotation it does not know.
run_function_raw_fallback(function, data) ==
    IF function.annotation = "list[str]"
    THEN run_function_result(PyList(splitlines(data)), function.result)
    ELSE IF function.annotation = "Grid[str]"
    THEN run_function_result(Grid(splitlines(data)), function.result)
    ELSE IF function.annotation = "FrozenGrid[str]"
    THEN run_function_result(FrozenGrid(splitlines(data)), function.result)
    ELSE IF function.annotation = "RepeatingGrid[str]"
    THEN run_function_result(RepeatingGrid(splitlines(data)), function.result)
    ELSE run_function_result(PyStr(data), function.result)

\* run_function(function, data).  A function is the annotation of its first
\* parameter and the value it returns; "no parameter" and "no annotation"
\* stand for a function without parameters and for a first parameter that is
\* not annotated.
run_function(function, data) ==
    IF function.annotation = "no parameter"
    THEN RunOutcome("StopIteration", NotCalled, PyOther)
    ELSE IF function.annotation = "no annotation"
    THEN RunOutcome("KeyError", NotCalled, PyOther)
    ELSE IF function.annotation = "list[str]"
    THEN run_function_result(PyList(splitlines(data)), function.result)
    ELSE IF function.annotation = "str"
    THEN run_function_result(PyStr(data), function.result)
    ELSE IF function.annotation = "Grid[str]"
    THEN run_function_result(Grid(splitlines(data)), function.result)
    ELSE IF function.annotation = "FrozenGrid[str]"
    THEN run_function_result(FrozenGrid(splitlines(data)), function.result)
    ELSE IF function.annotation = "RepeatingGrid[str]"
    THEN run_function_result(RepeatingGrid(splitlines(data)), function.result)
    ELSE RunOutcome("Exception", NotCalled, PyOther)

Annotations ==
    {"list[str]", "str", "Grid[str]", "FrozenGrid[str]", "RepeatingGrid[str]",
     "list[int]", "Grid[int]", "Sequence[str]", "bytes",
     "no annotation", "no parameter"}

Results ==
    {PyInt(7), PyFloat(14), PyFloat(15), PyComplex(14, 0), PyComplex(14, 2), PyOther}

InitRun ==
    /\ fn = "none"
    /\ args \in [function : [annotation : Annotations, result : Results],
                 data : UNION {[1..len -> Characters] : len \in 0..MaxData}]
    /\ ret = RunOutcome("pending", NotCalled, PyOther)
    /\ NoDay20

Call_run_function ==
    /\ fn = "none"
    /\ fn' = "run_function"
    /\ ret' = run_function(args.function, args.data)
    /\ UNCHANGED <<args, day20vars>>

NextRun == Call_run_function

SpecRun == InitRun /\ [][NextRun]_vars

\* C3: run_function adapts the raw input to the annotation of the first
\* parameter: list[str] receives data.splitlines(), str the raw string,
\* Grid[str], FrozenGrid[str] and RepeatingGrid[str] the grid of that class
\* built from the lines; for any other annotation it raises an exception and
\* the solution function is never called.
C3_RunFunction ==
    fn = "run_function" =>
        LET annotation == args.function.annotation
            lines == splitlines(args.data)
        IN /\ annotation = "list[str]" =>
                 ret.received.type = "list" /\ ret.received.value = lines
           /\ annotation = "str" =>
                 ret.received.type = "str" /\ ret.received.value = <<args.data>>
           /\ annotation \in {"Grid[str]", "FrozenGrid[str]", "RepeatingGrid[str]"} =>
                 /\ ret.received.type \o "[str]" = annotation
                 /\ ret.received.value = lines
           /\ annotation \notin {"list[str]", "str", "Grid[str]", "FrozenGrid[str]",
                                 "RepeatingGrid[str]"} =>
                 ret.exc # "none" /\ ret.received = NotCalled

\* An annotation run_function does not know, with input of two lines.
C3_Witness ==
    /\ fn = "run_function"
    /\ args.function.annotation = "list[int]"
    /\ Len(splitlines(args.data)) = 2
    /\ ret.exc = "Exception"
    /\ ret.received = NotCalled

\* ------------------------------------------------------------------------
\* solutions/common/strings.py
\* ------------------------------------------------------------------------
MaxStr == 5        \* the string handed to ints has at most MaxStr characters

\* The decimal digits and their values.
DigitValue == [c \in {"0", "1", "2", "3", "4", "5", "6", "7", "8", "9"} |->
                  CASE c = "0" -> 0 [] c = "1" -> 1 [] c = "2" -> 2 [] c = "3" -> 3
                    [] c = "4" -> 4 [] c = "5" -> 5 [] c = "6" -> 6 [] c = "7" -> 7
                    [] c = "8" -> 8 [] c = "9" -> 9]
IsDigit(c) == c \in DOMAIN DigitValue

\* \d+ tried at position i: the position after the digits it takes (i when
\* there is no digit at i).
RECURSIVE digits_end(_, _)
digits_end(s, i) ==
    IF i <= Len(s) /\ IsDigit(s[i]) THEN digits_end(s, i + 1) ELSE i

\* _ALL_INTS_RE.findall(s) from position i on: the leftmost matches of -?\d+
\* that do not overlap.  "-?" takes a minus sign when there is one; without a
\* digit behind it the pattern does not match at i at all.
RECURSIVE findall_from(_, _)
findall_from(s, i) ==
    IF i > Len(s) THEN <<>>
    ELSE LET start == IF s[i] = "-" THEN i + 1 ELSE i
             end == digits_end(s, start)
         IN IF end > start
            THEN <<SubSeq(s, i, end - 1)>> \o findall_from(s, end)
            ELSE findall_from(s, i + 1)

_ALL_INTS_RE_findall(s) == findall_from(s, 1)

\* The value of a string of decimal digits.
RECURSIVE DecimalValue(_)
DecimalValue(d) ==
    IF d = <<>> THEN 0
    ELSE 10 * DecimalValue(SubSeq(d, 1, Len(d) - 1)) + DigitValue[d[Len(d)]]

\* int(v) accepts an optional minus sign and at least one digit.
is_int_literal(v) ==
    LET d == IF v # <<>> /\ v[1] = "-" THEN Tail(v) ELSE v
    IN d # <<>> /\ \A k \in 1..Len(d) : IsDigit(d[k])

int(v) == IF v[1] = "-" THEN -DecimalValue(Tail(v)) ELSE DecimalValue(v)

\* ints without the sign of the matches
ints_magnitudes(s) ==
    LET found == _ALL_INTS_RE_findall(s)
    IN [k \in 1..Len(found) |-> Abs(int(found[k]))]

\* ints(s)
ints(s) ==
    LET found == _ALL_INTS_RE_findall(s)
    IN [k \in 1..Len(found) |-> int(found[k])]

\* The strings ints is called with: digits, minus signs, letters and blanks.
StrCharacters == {"0", "1", "7", "-", "x", " "}
Strings == UNION {[1..n -> StrCharacters] : n \in 0..MaxStr}

InitInts ==
    /\ fn = "none"
    /\ args \in Strings
    /\ ret = Pending
    /\ NoDay20

Call_ints ==
    /\ fn = "none"
    /\ fn' = "ints"
    /\ ret' = Returned(ints(args))
    /\ UNCHANGED <<args, day20vars>>

NextInts == Call_ints

SpecInts == InitInts /\ [][NextInts]_vars

\* The positions at which a maximal run of digits starts, the position at
\* which the run that starts at i ends, and the value of the digits i..j.
RunStarts(s) == {i \in 1..Len(s) : IsDigit(s[i]) /\ (i = 1 \/ ~IsDigit(s[i - 1]))}
RunEnd(s, i) ==
    CHOOSE j \in i..Len(s) :
        /\ \A k \in i..j : IsDigit(s[k])
        /\ j = Len(s) \/ ~IsDigit(s[j + 1])
RECURSIVE RunValue(_, _, _)
RunValue(s, i, j) ==
    IF j < i THEN 0 ELSE 10 * RunValue(s, i, j - 1) + DigitValue[s[j]]

MaxCoef == 4       \* the coefficients a, b, c are in -MaxCoef..MaxCoef

\* The greatest r in lo..hi with r * r <= x (lo * lo <= x).
RECURSIVE FloorSqrt(_, _, _)
FloorSqrt(x, lo, hi) ==
    IF lo = hi THEN lo
    ELSE LET mid == (lo + hi + 1) \div 2
         IN IF mid * mid <= x THEN FloorSqrt(x, mid, hi) ELSE FloorSqrt(x, lo, mid - 1)

\* math.sqrt(x): ValueError (math domain error) below zero.  A float is kept
\* as its number of thousandths, rounded down.
math_sqrt(x) ==
    IF x < 0 THEN Raised("ValueError")
    ELSE Returned(FloorSqrt(x * 1000000, 0, Min(1000 * (x + 1), 46340)))

\* float / int: ZeroDivisionError when the divisor is 0.
truediv(thousandths, divisor) ==
    IF divisor = 0 THEN Raised("ZeroDivisionError")
    ELSE Returned(PyFloorDiv(thousandths, divisor))

\* quadratic_formula with the square root of the magnitude of the discriminant
quadratic_formula_magnitude(a, b, c) ==
    LET sqrt == math_sqrt(Abs(b * b - 4 * a * c))
        first == truediv(-b * 1000 - sqrt.val, 2 * a)
        second == truediv(-b * 1000 + sqrt.val, 2 * a)
    IN IF first.exc # "none" THEN first
       ELSE IF second.exc # "none" THEN second
       ELSE Returned(<<first.val, second.val>>)

\* quadratic_formula(a, b, c): the square root is taken first, then the first
\* quotient, then the second.
quadratic_formula(a, b, c) ==
    LET sqrt == math_sqrt(b * b - 4 * a * c)
    IN IF sqrt.exc # "none" THEN sqrt
       ELSE LET first == truediv(-b * 1000 - sqrt.val, 2 * a)
                second == truediv(-b * 1000 + sqrt.val, 2 * a)
            IN IF first.exc # "none" THEN first
               ELSE IF second.exc # "none" THEN second
               ELSE Returned(<<first.val, second.val>>)

InitQuadratic ==
    /\ fn = "none"
    /\ args \in (-MaxCoef..MaxCoef) \X (-MaxCoef..MaxCoef) \X (-MaxCoef..MaxCoef)
    /\ ret = Pending
    /\ NoDay20

Call_quadratic_formula ==
    /\ fn = "none"
    /\ fn' = "quadratic_formula"
    /\ ret' = quadratic_formula(args[1], args[2], args[3])
    /\ UNCHANGED <<args, day20vars>>

NextQuadratic == Call_quadratic_formula

SpecQuadratic == InitQuadratic /\ [][NextQuadratic]_vars

RECURSIVE str_split_from(_, _, _, _, _)
str_split_from(s, sep, i, piece, pieces) ==
    IF i > Len(s) THEN Append(pieces, piece)
    ELSE IF i + Len(sep) - 1 <= Len(s) /\ SubSeq(s, i, i + Len(sep) - 1) = sep
         THEN str_split_from(s, sep, i + Len(sep), <<>>, Append(pieces, piece))
    ELSE str_split_from(s, sep, i + 1, Append(piece, s[i]), pieces)

str_split(s, sep) == str_split_from(s, sep, 1, <<>>, <<>>)

\* s.split() without a separator: the words between runs of whitespace, none
\* of them empty.
RECURSIVE str_split_whitespace_from(_, _, _, _)
str_split_whitespace_from(s, i, word, words) ==
    LET closed == IF word = <<>> THEN words ELSE Append(words, word)
    IN IF i > Len(s) THEN closed
       ELSE IF s[i] \in {" ", "LF", "CR"}
            THEN str_split_whitespace_from(s, i + 1, <<>>, closed)
       ELSE str_split_whitespace_from(s, i + 1, Append(word, s[i]), words)

str_split_whitespace(s) == str_split_whitespace_from(s, 1, <<>>, <<>>)

\* The dict comprehension of one game set: items without a word are skipped,
\* the key game_set_color[1] is evaluated before int(game_set_color[0]), a
\* colour named again replaces its count.
RECURSIVE game_set_dict(_, _, _)
game_set_dict(items, i, d) ==
    IF i > Len(items) THEN Returned(d)
    ELSE LET game_set_color == str_split_whitespace(items[i])
         IN IF game_set_color = <<>> THEN game_set_dict(items, i + 1, d)
            ELSE IF Len(game_set_color) < 2 THEN Raised("IndexError")
            ELSE IF ~is_int_literal(game_set_color[1]) THEN Raised("ValueError")
            ELSE game_set_dict(items, i + 1,
                               DictSet(d, game_set_color[2], int(game_set_color[1])))

\* The list comprehension over the game sets of one line.
RECURSIVE game_sets_list(_, _, _, _)
game_sets_list(game_sets, item_separator, i, out) ==
    IF i > Len(game_sets) THEN Returned(out)
    ELSE LET dict == game_set_dict(str_split(game_sets[i], item_separator), 1, <<>>)
         IN IF dict.exc # "none" THEN dict
            ELSE game_sets_list(game_sets, item_separator, i + 1, Append(out, dict.val))

\* The pair of one line with the game sets separated by ", " and their items
\* by "; "
parse_game_line_separators_swapped(line) ==
    LET game_line == str_split(line, <<":", " ">>)
        words == str_split_whitespace(game_line[1])
    IN IF words = <<>> THEN Raised("IndexError")
       ELSE IF ~is_int_literal(words[Len(words)]) THEN Raised("ValueError")
       ELSE IF Len(game_line) < 2 THEN Raised("IndexError")
       ELSE LET sets == game_sets_list(str_split(game_line[2], <<",", " ">>),
                                       <<";", " ">>, 1, <<>>)
            IN IF sets.exc # "none" THEN sets
               ELSE Returned(<<int(words[Len(words)]), sets.val>>)

\* The pair the generator yields for one line: the game id is evaluated
\* first, then the list of the game sets.
parse_game_line(line) ==
    LET game_line == str_split(line, <<":", " ">>)
        words == str_split_whitespace(game_line[1])
    IN IF words = <<>> THEN Raised("IndexError")
       ELSE IF ~is_int_literal(words[Len(words)]) THEN Raised("ValueError")
       ELSE IF Len(game_line) < 2 THEN Raised("IndexError")
       ELSE LET sets == game_sets_list(str_split(game_line[2], <<";", " ">>),
                                       <<",", " ">>, 1, <<>>)
            IN IF sets.exc # "none" THEN sets
               ELSE Returned(<<int(words[Len(words)]), sets.val>>)

\* The generator over the lines, read to its end.
RECURSIVE parse_lines(_, _, _)
parse_lines(lines, i, out) ==
    IF i > Len(lines) THEN Returned(out)
    ELSE LET pair == parse_game_line(lines[i])
         IN IF pair.exc # "none" THEN pair
            ELSE parse_lines(lines, i + 1, Append(out, pair.val))

_parse_document(document) == parse_lines(splitlines(document), 1, <<>>)

\* The documents: games written out as "Game N: c colour, c colour; ...".
Join(strings, separator) ==
    IF strings = <<>> THEN <<>>
    ELSE Flatten([k \in 1..Len(strings) |->
                     IF k = 1 THEN strings[k] ELSE separator \o strings[k]])
RECURSIVE DecimalString(_)
DecimalString(n) ==
    LET digit == CHOOSE c \in DOMAIN DigitValue : DigitValue[c] = n % 10
    IN IF n < 10 THEN <<digit>> ELSE Append(DecimalString(n \div 10), digit)
GameLine(game) ==
    <<"G", "a", "m", "e", " ">> \o DecimalString(game.id) \o <<":", " ">>
        \o Join([s \in 1..Len(game.sets) |->
                    Join([e \in 1..Len(game.sets[s]) |->
                             DecimalString(game.sets[s][e].count) \o <<" ">>
                                 \o game.sets[s][e].color],
                         <<",", " ">>)],
                <<";", " ">>)

D2Colors == {<<"r", "e", "d">>, <<"b", "l", "u", "e">>}
D2Counts == {3, 14}
D2Ids == {1, 12}
\* The games of a document, each one the sizes of its game sets.
D2Shapes == { << <<1>> >>, << <<2>> >>, << <<1, 1>> >>, << <<2, 1>> >>,
              << <<1>>, <<1>> >>, << <<1, 2>>, <<1>> >> }

RECURSIVE SeqProduct(_)
SeqProduct(sets) ==
    IF sets = <<>> THEN {<<>>}
    ELSE {<<h>> \o t : h \in Head(sets), t \in SeqProduct(Tail(sets))}
D2SetsOfSize(n) ==
    {q \in [1..n -> [color : D2Colors, count : D2Counts]] :
        \A i, j \in 1..n : q[i].color = q[j].color => i = j}
D2GamesOfShape(sizes) ==
    [id : D2Ids, sets : SeqProduct([k \in 1..Len(sizes) |-> D2SetsOfSize(sizes[k])])]
D2Documents ==
    UNION {{[games |-> games,
             document |-> Join([k \in 1..Len(games) |-> GameLine(games[k])], <<"LF">>)
                              \o end] :
               games \in SeqProduct([k \in 1..Len(shape) |-> D2GamesOfShape(shape[k])]),
               end \in {<<>>, <<"LF">>}} :
           shape \in D2Shapes}

InitDay02 ==
    /\ fn = "none"
    /\ args \in D2Documents
    /\ ret = Pending
    /\ NoDay20

Call__parse_document ==
    /\ fn = "none"
    /\ fn' = "_parse_document"
    /\ ret' = _parse_document(args.document)
    /\ UNCHANGED <<args, day20vars>>

NextDay02 == Call__parse_document

SpecDay02 == InitDay02 /\ [][NextDay02]_vars

\* C13: for a document of "Game N: ..." lines _parse_document yields one pair
\* (N, sets) per line, in the order of the lines; sets has one dict per game
\* set of the line, in order, and the dict maps exactly the colours named in
\* the game set to their counts.
C13_ParseDocument ==
    fn = "_parse_document" =>
        /\ ret.exc = "none"
        /\ Len(ret.val) = Len(args.games)
        /\ \A k \in 1..Len(args.games) :
              LET game == args.games[k]
                  sets == ret.val[k][2]
              IN /\ ret.val[k][1] = game.id
                 /\ Len(sets) = Len(game.sets)
                 /\ \A s \in 1..Len(game.sets) :
                       /\ SeqToSet(DictKeys(sets[s]))
                              = {game.sets[s][e].color : e \in 1..Len(game.sets[s])}
                       /\ Len(sets[s]) = Len(game.sets[s])
                       /\ \A e \in 1..Len(game.sets[s]) :
                             DictGet(sets[s], game.sets[s][e].color, -1)
                                 = game.sets[s][e].count

\* A document of two games was parsed, one of them with two game sets, one
\* game set with two colours.
C13_Witness ==
    /\ fn = "_parse_document"
    /\ Len(ret.val) = 2
    /\ ret.val[1][1] # ret.val[2][1]
    /\ Len(ret.val[1][2]) = 2
    /\ Len(ret.val[1][2][2]) = 2

\* ------------------------------------------------------------------------
\* Day 20: properties of the modules and of handle_signals
\* ------------------------------------------------------------------------
Running == fn \in {"part_1", "part_2"}

\* A step that builds the modules, a step in which the receiver of the
\* yielded pulse handles it, and the pulses sent in such a step.
BuildStep == fn = "none" /\ fn' \in {"part_1", "part_2"}
HandleStep == Running /\ yielded # <<>> /\ yielded' = <<>>
NewlySent == SubSeq(log'.sent, Len(log.sent) + 1, Len(log'.sent))

\* The pulses of NewlySent go from module m to each of its outputs once and
\* all carry the given signal.
SentToEveryOutput(m, signal) ==
    /\ Len(NewlySent) = Cardinality(OutputSet(args, m))
    /\ {NewlySent[k][2] : k \in 1..Len(NewlySent)} = OutputSet(args, m)
    /\ \A k \in 1..Len(NewlySent) : NewlySent[k][1] = m /\ NewlySent[k][3] = signal

\* C14: a flip-flop is off when the modules have been built; a High pulse
\* leaves its state as it is and makes it send nothing; a Low pulse toggles
\* its state, and it then sends High to every output if it is now on and Low
\* to every output if it is now off.
C14_FlipFlop ==
    [][ /\ BuildStep =>
              \A k \in 1..Len(args) :
                  args[k].type = "%" => modules'.state[args[k].name] = FALSE
        /\ (HandleStep /\ modules.kind[yielded[2]] = "FlipFlop") =>
              LET m == yielded[2]
              IN IF yielded[3] = "High"
                 THEN modules'.state[m] = modules.state[m] /\ NewlySent = <<>>
                 ELSE /\ modules'.state[m] = ~modules.state[m]
                      /\ SentToEveryOutput(m, IF modules'.state[m] THEN "High" ELSE "Low")
      ]_vars

\* Since the last press one flip-flop has handled a High pulse and another a
\* Low pulse that turned it on.
C14_Witness ==
    /\ Running
    /\ \E k \in 1..Len(log.handled) :
          modules.kind[log.handled[k][2]] = "FlipFlop" /\ log.handled[k][3] = "High"
    /\ \E k \in 1..Len(log.handled) :
          /\ modules.kind[log.handled[k][2]] = "FlipFlop"
          /\ log.handled[k][3] = "Low"
          /\ modules.state[log.handled[k][2]]

\* The inputs of a module, read off the definitions.
InputsOf(definitions, name) ==
    {definitions[k].name : k \in {j \in 1..Len(definitions) :
                                     name \in SeqToSet(definitions[j].destinations)}}

\* C15: when the modules have been built a conjunction remembers Low for
\* each of its inputs, whether the input is defined before or after it; when
\* it handles a pulse it records the pulse as the memory of the sender, and
\* then sends Low to its outputs if it remembers High for all inputs and High
\* otherwise.
C15_Conjunction ==
    [][ /\ BuildStep =>
              \A k \in 1..Len(args) :
                  args[k].type = "&" =>
                      modules'.memory[args[k].name]
                          = [s \in InputsOf(args, args[k].name) |-> "Low"]
        /\ (HandleStep /\ modules.kind[yielded[2]] = "Conjunction") =>
              LET m == yielded[2]
                  before == modules.memory[m]
                  after == modules'.memory[m]
              IN /\ after = [before EXCEPT ![yielded[1]] = yielded[3]]
                 /\ SentToEveryOutput(m, IF \A s \in DOMAIN after : after[s] = "High"
                                         THEN "Low" ELSE "High")
      ]_vars

\* A conjunction that is defined before one of its inputs has sent a Low
\* pulse since the last press.
C15_Witness ==
    /\ Running
    /\ \E k, j \in 1..Len(args) :
          /\ k < j
          /\ args[k].type = "&"
          /\ args[k].name \in SeqToSet(args[j].destinations)
          /\ \E p \in 1..Len(log.sent) :
                log.sent[p][1] = args[k].name /\ log.sent[p][3] = "Low"

IsPrefix(p, q) == Len(p) <= Len(q) /\ SubSeq(q, 1, Len(p)) = p

\* C16: within one press the pulses are yielded in the order in which they
\* were sent and handled in the order in which they were yielded, each pulse
\* once, and a pulse is handled only after it has been yielded; the list
\* holds the pulses sent and not yet yielded, and when it is empty every
\* pulse sent has been yielded and handled.
C16_Fifo ==
    Running =>
        /\ IsPrefix(log.yielded, log.sent)
        /\ IsPrefix(log.handled, log.yielded)
        /\ Len(log.yielded) - Len(log.handled) = IF yielded = <<>> THEN 0 ELSE 1
        /\ yielded # <<>> => yielded = log.yielded[Len(log.yielded)]
        /\ log.sent = log.yielded \o signals
        /\ (signals = <<>> /\ yielded = <<>>) => log.handled = log.sent

\* Two pulses wait in the list while later pulses of the same press have
\* already been sent by the handling of earlier ones.
C16_Witness ==
    /\ Running
    /\ Len(signals) >= 2
    /\ Len(log.handled) >= 2
    /\ signals[1][1] # signals[2][1]

ButtonPulse == <<"button", "broadcaster", "Low">>

\* C17: in part_1 and part_2 the button is pushed only when the list is empty
\* and every pulse of the press before has been yielded and handled; the
\* press sends exactly one pulse, Low from the button to the broadcaster, and
\* no other pulse of the press comes from the button.
C17_ButtonPress ==
    [][ /\ (Running /\ presses' = presses + 1) =>
              /\ signals = <<>>
              /\ yielded = <<>>
              /\ log.yielded = log.sent
              /\ log.handled = log.sent
              /\ signals' = <<ButtonPulse>>
              /\ log'.sent = <<ButtonPulse>>
        /\ (Running /\ fn' = fn /\ presses' > 0) =>
              /\ log'.sent[1] = ButtonPulse
              /\ \A k \in 2..Len(log'.sent) : log'.sent[k][1] # "button"
      ]_vars

\* part_2 has pushed the button a second time, after a part_1 that has
\* pushed it Presses times.
C17_Witness ==
    /\ fn = "part_2"
    /\ presses = 2
    /\ Len(log.handled) >= 2
    /\ Len(ret) = 1
    /\ counts # <<>>

\* ------------------------------------------------------------------------
\* manage.py: create
\* ------------------------------------------------------------------------
\* The files create works on, for one year and day: the year directory of
\* the solutions with its __init__.py and dayDD.py, the year directory of the
\* test data with its dayDD.yaml.  A path is "absent", a directory "dir", or
\* a file with its content.
\* The outcome of a command: the files after it, what it wrote to stderr and
\* stdout, and the exception that ended it ("none" for none).
Outcome(files, stderr, stdout, exc) ==
    [files |-> files, stderr |-> stderr, stdout |-> stdout, exc |-> exc]

\* The text create_solution_file writes, with or without the puzzle title.
SolutionTemplate(titled) ==
    IF titled THEN "template with the puzzle title" ELSE "template without a title"

\* create_solution_file with the test for --force that create_test_data has
create_solution_file_forced(files, force, puzzle) ==
    LET made == IF files.year_dir = "absent"
                THEN [files EXCEPT !.year_dir = "dir", !.init_file = ""]
                ELSE files
    IN IF made.day_file # "absent" /\ ~force
       THEN Outcome(made, <<"solution exists">>, <<>>, "none")
       ELSE IF puzzle = "no data" THEN Outcome(made, <<>>, <<>>, "Exception")
       ELSE Outcome([made EXCEPT !.day_file = SolutionTemplate(puzzle = "ok")],
                    <<>>, <<"created solution">>, "none")

\* create_solution_file(args).  Puzzle(...) may raise ("no puzzle"), and so
\* may puzzle.title ("no data"), which is read outside the try block.
create_solution_file(files, force, puzzle) ==
    LET made == IF files.year_dir = "absent"
                THEN [files EXCEPT !.year_dir = "dir", !.init_file = ""]
                ELSE files
    IN IF made.day_file # "absent"
       THEN Outcome(made, <<"solution exists">>, <<>>, "none")
       ELSE IF puzzle = "no data" THEN Outcome(made, <<>>, <<>>, "Exception")
       ELSE Outcome([made EXCEPT !.day_file = SolutionTemplate(puzzle = "ok")],
                    <<>>, <<"created solution">>, "none")

\* create_test_data(args).  The file is opened for writing before
\* puzzle.examples is read.
create_test_data(files, force, puzzle) ==
    LET made == IF files.test_year_dir = "absent"
                THEN [files EXCEPT !.test_year_dir = "dir"]
                ELSE files
    IN IF made.test_day_file # "absent" /\ ~force
       THEN Outcome(made, <<"test data exists">>, <<>>, "none")
       ELSE IF puzzle = "no puzzle"
       THEN Outcome([made EXCEPT !.test_day_file =
                                    IF @ = "absent" THEN "" ELSE @],
                    <<"could not fetch">>, <<"created test data">>, "none")
       ELSE IF puzzle = "no data"
       THEN Outcome([made EXCEPT !.test_day_file = ""], <<>>, <<>>, "Exception")
       ELSE Outcome([made EXCEPT !.test_day_file = "examples"],
                    <<>>, <<"created test data">>, "none")

\* create(args): create_solution_file, then create_test_data.
create(files, force, puzzle) ==
    LET solution == create_solution_file(files, force, puzzle)
        test_data == create_test_data(solution.files, force, puzzle)
    IN IF solution.exc # "none" THEN solution
       ELSE Outcome(test_data.files, solution.stderr \o test_data.stderr,
                    solution.stdout \o test_data.stdout, test_data.exc)

\* The files before the command: a file needs its directory.
SolutionContents == {"absent", "", "written by the user",
                     SolutionTemplate(TRUE), SolutionTemplate(FALSE)}
TestDataContents == {"absent", "", "examples", "edited by the user"}
FilesBefore ==
    {files \in [year_dir : {"absent", "dir"}, init_file : {"absent", ""},
                day_file : SolutionContents,
                test_year_dir : {"absent", "dir"}, test_day_file : TestDataContents] :
        /\ files.year_dir = "absent" =>
              files.init_file = "absent" /\ files.day_file = "absent"
        /\ files.test_year_dir = "absent" => files.test_day_file = "absent"}

InitCreate ==
    /\ fn = "none"
    /\ args \in [files : FilesBefore, force : BOOLEAN,
                 puzzle : {"ok", "no puzzle", "no data"}]
    /\ ret = Pending
    /\ NoDay20

Call_create ==
    /\ fn = "none"
    /\ fn' = "create"
    /\ ret' = create(args.files, args.force, args.puzzle)
    /\ UNCHANGED <<args, day20vars>>

NextCreate == Call_create

SpecCreate == InitCreate /\ [][NextCreate]_vars

\* C18: when the solution file exists, create_solution_file reports an error
\* and leaves the file as it is, with and without --force; the file is
\* written only when there was none.
C18_CreateSolutionFile ==
    fn = "create" =>
        /\ args.files.day_file # "absent" =>
              /\ ret.files.day_file = args.files.day_file
              /\ ret.stderr # <<>> /\ ret.stderr[1] = "solution exists"
        /\ ret.files.day_file # args.files.day_file =>
              args.files.day_file = "absent"

\* create --force was run over a solution written by the user: the test data
\* was fetched again, the solution was kept.
C18_Witness ==
    /\ fn = "create"
    /\ args.force
    /\ args.files.day_file = "written by the user"
    /\ ret.files.day_file = "written by the user"
    /\ ret.stderr = <<"solution exists">>
    /\ args.files.test_day_file = "edited by the user"
    /\ ret.files.test_day_file = "examples"

\* ------------------------------------------------------------------------
\* manage.py: submit
\* ------------------------------------------------------------------------
\* function_name.startswith("part_1") and function_name.startswith("part_2")
\* for the names of the solution functions used here.
StartsWithPart1(function_name) == function_name \in {"part_1", "part_1_fast"}
StartsWithPart2(function_name) == function_name \in {"part_2", "part_2_fast"}

\* run_test(solution_module, function_name) for submit, which leaves run_all
\* False.  test_datas is None (exists is FALSE) when the module has no test
\* data file, otherwise the list of its tests; a test says for part_1 and
\* part_2 whether the expected answer is "absent", or "right" or "wrong" for
\* the function run.
RECURSIVE run_test_loop(_, _, _, _)
run_test_loop(test_datas, function_name, i, total_result) ==
    IF i > Len(test_datas) THEN total_result
    ELSE LET test_data == test_datas[i]
             expect == IF StartsWithPart1(function_name) /\ test_data.part_1 # "absent"
                       THEN test_data.part_1
                       ELSE IF StartsWithPart2(function_name) /\ test_data.part_2 # "absent"
                       THEN test_data.part_2
                       ELSE "continue"
         IN run_test_loop(test_datas, function_name, i + 1,
                          IF expect = "wrong" THEN FALSE ELSE total_result)

run_test(test_datas, function_name) ==
    IF ~test_datas.exists \/ test_datas.tests = <<>> THEN TRUE
    ELSE run_test_loop(test_datas.tests, function_name, 1, TRUE)

\* What submit does, in order: a call of run_test with its result, the error
\* message, a run of the challenge input, an answer handed to the puzzle client.
SubmitEvent(type, module, result) == [type |-> type, module |-> module, result |-> result]

\* The test of submit without the result of run_test
submit_stops_never(result, force) == FALSE

\* "if not result and not args.force"
submit_stops(result, force) == ~result /\ ~force

\* The loop of submit over the solution modules: the events so far and the
\* exception that ended submit.  run_challenge reports an error and returns
\* None when the puzzle cannot be fetched; Puzzle(...) in submit then raises.
RECURSIVE submit_loop(_, _, _, _, _, _)
submit_loop(solution_modules, i, challenge, force, puzzle, events) ==
    IF i > Len(solution_modules) THEN [events |-> events, exc |-> "none"]
    ELSE LET result == run_test(solution_modules[i], challenge)
             tested == Append(events, SubmitEvent("run_test", i, result))
         IN IF submit_stops(result, force)
            THEN [events |-> Append(tested, SubmitEvent("error", i, FALSE)), exc |-> "none"]
            ELSE IF puzzle = "fails"
            THEN [events |-> Append(tested, SubmitEvent("error", i, FALSE)),
                  exc |-> "Exception"]
            ELSE LET ran == Append(tested, SubmitEvent("run_challenge", i, TRUE))
                     answered ==
                         IF challenge = "part_1"
                         THEN Append(ran, SubmitEvent("answer_a", i, TRUE))
                         ELSE IF challenge = "part_2"
                         THEN Append(ran, SubmitEvent("answer_b", i, TRUE))
                         ELSE ran
                 IN submit_loop(solution_modules, i + 1, challenge, force, puzzle, answered)

submit(solution_modules, challenge, force, puzzle) ==
    submit_loop(solution_modules, 1, challenge, force, puzzle, <<>>)

\* The test data of a solution module and the solution modules of a day.
TestExpectations == {[part_1 |-> "right", part_2 |-> "right"],
                     [part_1 |-> "wrong", part_2 |-> "right"],
                     [part_1 |-> "right", part_2 |-> "wrong"],
                     [part_1 |-> "right", part_2 |-> "absent"],
                     [part_1 |-> "absent", part_2 |-> "absent"]}
TestDatas ==
    {[exists |-> FALSE, tests |-> <<>>]}
        \cup {[exists |-> TRUE, tests |-> tests] :
                 tests \in UNION {[1..n -> TestExpectations] : n \in 0..2}}
SolutionModules == UNION {[1..n -> TestDatas] : n \in 1..2}

InitSubmit ==
    /\ fn = "none"
    /\ args \in [solution_modules : SolutionModules,
                 challenge : {"part_1", "part_2", "part_1_fast"},
                 force : BOOLEAN,
                 puzzle : {"ok", "fails"}]
    /\ ret = Pending
    /\ NoDay20

Call_submit ==
    /\ fn = "none"
    /\ fn' = "submit"
    /\ ret' = submit(args.solution_modules, args.challenge, args.force, args.puzzle)
    /\ UNCHANGED <<args, day20vars>>

NextSubmit == Call_submit

SpecSubmit == InitSubmit /\ [][NextSubmit]_vars

\* A test of the module fails for the challenge: its expected answer for the
\* part is not what the function returns.
SampleTestFails(test_datas, challenge) ==
    /\ test_datas.exists
    /\ \E t \in 1..Len(test_datas.tests) :
          \/ StartsWithPart1(challenge) /\ test_datas.tests[t].part_1 = "wrong"
          \/ StartsWithPart2(challenge) /\ test_datas.tests[t].part_2 = "wrong"

MaxSide == 3       \* grids have at most MaxSide rows and MaxSide columns

\* A coordinate is a complex number, kept as <<real, imag>>.
height(grid) == Len(grid.value)
width(grid) == IF grid.value # <<>> THEN Len(grid.value[1]) ELSE 0

\* Grid.in_bounds(coordinate)
in_bounds(grid, coordinate) ==
    /\ 0 <= coordinate[2] /\ coordinate[2] < height(grid)
    /\ 0 <= coordinate[1] /\ coordinate[1] < width(grid)

\* "for direction in directions: if self.in_bounds(coordinate + direction):
\* yield coordinate + direction"
neighbours(grid, coordinate, directions) ==
    SelectSeq([k \in 1..Len(directions) |->
                  <<coordinate[1] + directions[k][1], coordinate[2] + directions[k][2]>>],
              LAMBDA c : in_bounds(grid, c))

\* Grid.orthogonal(coordinate): the directions +1, -1, -1j, +1j
orthogonal(grid, coordinate) ==
    neighbours(grid, coordinate, << <<1, 0>>, <<-1, 0>>, <<0, -1>>, <<0, 1>> >>)

\* Grid.diagonal(coordinate): the directions +1+1j, -1+1j, +1-1j, -1+1j
diagonal(grid, coordinate) ==
    neighbours(grid, coordinate, << <<1, 1>>, <<-1, 1>>, <<1, -1>>, <<-1, 1>> >>)

\* Grid.adjacent(coordinate)
adjacent(grid, coordinate) == orthogonal(grid, coordinate) \o diagonal(grid, coordinate)

\* The grids of h rows and w columns and the coordinates in and around them.
GridCalls ==
    UNION {[grid : {Grid([y \in 1..h |-> [x \in 1..w |-> "."]])},
            coordinate : (-2..(w + 1)) \X (-2..(h + 1))] :
              h \in 0..MaxSide, w \in 0..MaxSide}

InitGrid ==
    /\ fn = "none"
    /\ args \in GridCalls
    /\ ret = <<>>
    /\ NoDay20

Call_orthogonal ==
    /\ fn = "none"
    /\ fn' = "orthogonal"
    /\ ret' = orthogonal(args.grid, args.coordinate)
    /\ UNCHANGED <<args, day20vars>>

Call_diagonal ==
    /\ fn = "none"
    /\ fn' = "diagonal"
    /\ ret' = diagonal(args.grid, args.coordinate)
    /\ UNCHANGED <<args, day20vars>>

Call_adjacent ==
    /\ fn = "none"
    /\ fn' = "adjacent"
    /\ ret' = adjacent(args.grid, args.coordinate)
    /\ UNCHANGED <<args, day20vars>>

NextGrid == Call_orthogonal \/ Call_diagonal \/ Call_adjacent

SpecGrid == InitGrid /\ [][NextGrid]_vars

\* The cells of the grid among the given offsets from the coordinate, and a
\* list that holds each element of a set exactly once.
CellsAt(offsets) ==
    LET rows == args.grid.value
        columns == IF rows = <<>> THEN 0 ELSE Len(rows[1])
    IN {c \in {<<args.coordinate[1] + d[1], args.coordinate[2] + d[2]>> : d \in offsets} :
           c[1] \in 0..(columns - 1) /\ c[2] \in 0..(Len(rows) - 1)}
HoldsEachOnce(list, set) ==
    /\ Len(list) = Cardinality(set)
    /\ {list[k] : k \in 1..Len(list)} = set

\* C20: Grid.diagonal yields exactly the diagonal neighbours (x+1, y+1),
\* (x-1, y+1), (x+1, y-1), (x-1, y-1) that are in bounds, each once, and
\* Grid.adjacent yields every one of the eight neighbours that is in bounds
\* exactly once.
C20_Diagonal ==
    /\ fn = "diagonal" => HoldsEachOnce(ret, CellsAt({-1, 1} \X {-1, 1}))
    /\ fn = "adjacent" =>
          HoldsEachOnce(ret, CellsAt(({-1, 0, 1} \X {-1, 0, 1}) \ {<<0, 0>>}))

\* ------------------------------------------------------------------------
\* Day 5: Range.cut, _parse_mappings and _convert_range on their own
\* ------------------------------------------------------------------------
\* The ranges of the model and the integers of a range.
D5Ranges == {Range(start, size) : start \in 0..D5MaxPos, size \in 0..D5MaxSize}
RangeSet(r) == {i \in r.start..(r.stop - 1) : TRUE}

InitCut ==
    /\ fn = "none"
    /\ args \in [self : D5Ranges, other : D5Ranges]
    /\ ret = <<>>
    /\ NoDay20

Call_cut ==
    /\ fn = "none"
    /\ fn' = "cut"
    /\ ret' = cut(args.self, args.other)
    /\ UNCHANGED <<args, day20vars>>

NextCut == Call_cut

SpecCut == InitCut /\ [][NextCut]_vars

\* C21: a.cut(b) returns at most two ranges, and the integers of the ranges
\* returned are exactly the integers that are in a and not in b.
C21_Cut ==
    fn = "cut" =>
        /\ Len(ret) <= 2
        /\ UNION {RangeSet(ret[k]) : k \in 1..Len(ret)}
               = RangeSet(args.self) \ RangeSet(args.other)

\* Whenever the two ranges have an integer in common, cut returns what is in
\* self and not in other.
C21_CutOfOverlapping ==
    (fn = "cut" /\ RangeSet(args.self) \cap RangeSet(args.other) # {}) =>
        /\ Len(ret) <= 2
        /\ UNION {RangeSet(ret[k]) : k \in 1..Len(ret)}
               = RangeSet(args.self) \ RangeSet(args.other)

\* The mapping sections _parse_mappings is called with: the sections behind
\* the seeds, each with the given number of lines.
D5SectionLists == UNION {SectionsOf(lines) : lines \in {<<0>>, <<1>>, <<2>>, <<1, 1>>}}

InitParseMappings ==
    /\ fn = "none"
    /\ args \in D5SectionLists
    /\ ret = <<>>
    /\ NoDay20

Call__parse_mappings ==
    /\ fn = "none"
    /\ fn' = "_parse_mappings"
    /\ ret' = _parse_mappings(args)
    /\ UNCHANGED <<args, day20vars>>

NextParseMappings == Call__parse_mappings

SpecParseMappings == InitParseMappings /\ [][NextParseMappings]_vars

\* C22: every list of mapping items that _parse_mappings returns is sorted by
\* the start of the source range, ascending, whatever the order of the lines
\* of the section.
C22_ParseMappingsSorted ==
    fn = "_parse_mappings" =>
        \A m \in 1..Len(ret) :
            \A k \in 1..(Len(ret[m]) - 1) :
                source_range(ret[m][k]).start <= source_range(ret[m][k + 1]).start

\* _parse_mappings returns one list per section and one item per line, in the
\* order of the lines.
C22_ParseMappingsInLineOrder ==
    fn = "_parse_mappings" =>
        /\ Len(ret) = Len(args)
        /\ \A m \in 1..Len(ret) :
              /\ Len(ret[m]) = Len(args[m])
              /\ \A k \in 1..Len(ret[m]) :
                    /\ source_range(ret[m][k]).start = args[m][k][2]
                    /\ RangeLen(source_range(ret[m][k])) = args[m][k][3]
                    /\ target_range(ret[m][k]).start = args[m][k][1]

\* The calls of _convert_range: a non-empty item with a difference, and a
\* mapping of up to two lines whose source ranges may overlap.
D5Mappings ==
    {[k \in 1..Len(lines) |->
         MappingItem(Range(lines[k][2], lines[k][3]), lines[k][1] - lines[k][2])] :
        lines \in UNION {SeqsOf(D5Lines, len) : len \in 0..2}}
D5Items ==
    {MappingItem(Range(start, size), difference) :
        start \in 0..D5MaxPos, size \in 1..D5MaxSize, difference \in {-1, 0, 1}}

InitConvertRange ==
    /\ fn = "none"
    /\ args \in [range : D5Items, mapping : D5Mappings]
    /\ ret = <<>>
    /\ NoDay20

Call__convert_range ==
    /\ fn = "none"
    /\ fn' = "_convert_range"
    /\ ret' = _convert_range(args.range, args.mapping)
    /\ UNCHANGED <<args, day20vars>>

NextConvertRange == Call__convert_range

SpecConvertRange == InitConvertRange /\ [][NextConvertRange]_vars

\* C23: for a non-empty item and any mapping, _convert_range comes to an end
\* and yields items whose source ranges are pairwise disjoint and together
\* hold exactly the integers of the source range of the item; for every
\* value v of a yielded item, v plus the difference of that item is
\* _convert_value(v + the difference of the input item, mapping).
C23_ConvertRange ==
    fn = "_convert_range" =>
        /\ \A j, k \in 1..Len(ret) :
              j # k => RangeSet(source_range(ret[j])) \cap RangeSet(source_range(ret[k])) = {}
        /\ UNION {RangeSet(source_range(ret[k])) : k \in 1..Len(ret)}
               = RangeSet(source_range(args.range))
        /\ \A k \in 1..Len(ret) :
              \A v \in RangeSet(source_range(ret[k])) :
                  v + ret[k].difference
                      = _convert_value(v + args.range.difference, args.mapping)

\* An item was cut in three by a mapping whose two source ranges overlap,
\* and the three parts have three differences.
C23_Witness ==
    /\ fn = "_convert_range"
    /\ Len(args.mapping) = 2
    /\ RangeSet(source_range(args.mapping[1])) \cap RangeSet(source_range(args.mapping[2])) # {}
    /\ Len(ret) = 3
    /\ Cardinality({ret[k].difference : k \in 1..3}) = 3

-----------------------------------------------------------------------------
\* solutions/year2023/day14.py. A row is a sequence of the characters "O"
\* (rolling rock), "#" (fixed rock) and "."; a grid is a sequence of rows.
\* The code compares grids only as results of _rotate_grid (tuples of tuples
\* of characters), so one sequence type stands for str and tuple alike.

D14MaxSide == 3      \* grids of 0..D14MaxSide rows and 1..D14MaxSide columns
D14MaxCycles == 4    \* total_cycles: 0..D14MaxCycles

\* _tilt_row, the loop from index i on: empty is the next free place.
RECURSIVE _tilt_row_loop(_, _, _)
_tilt_row_loop(row, i, empty) ==
    IF i > Len(row) THEN row
    ELSE IF row[i] = "O"
         THEN _tilt_row_loop([[row EXCEPT ![i] = "."] EXCEPT ![empty] = "O"],
                             i + 1, empty + 1)
    ELSE IF row[i] = "#" THEN _tilt_row_loop(row, i + 1, i + 1)
    ELSE _tilt_row_loop(row, i + 1, empty)

_tilt_row(input) == _tilt_row_loop(input, 1, 1)

RECURSIVE _tilt_grid(_)
_tilt_grid(rows) ==
    IF rows = <<>> THEN <<>>
    ELSE <<_tilt_row(Head(rows))>> \o _tilt_grid(Tail(rows))

\* rows[::-1]
RECURSIVE reversed(_)
reversed(rows) ==
    IF rows = <<>> THEN <<>>
    ELSE Append(reversed(Tail(rows)), Head(rows))

RECURSIVE zip_len(_, _)
zip_len(rows, k) ==
    IF k > Len(rows) THEN Len(rows[1])
    ELSE Min(Len(rows[k]), zip_len(rows, k + 1))

\* The j-th tuple of zip(*rows), from row k on.
RECURSIVE zip_tuple(_, _, _)
zip_tuple(rows, j, k) ==
    IF k > Len(rows) THEN <<>>
    ELSE <<rows[k][j]>> \o zip_tuple(rows, j, k + 1)

RECURSIVE zip_from(_, _, _)
zip_from(rows, j, len) ==
    IF j > len THEN <<>>
    ELSE <<zip_tuple(rows, j, 1)>> \o zip_from(rows, j + 1, len)

\* zip(*rows): as many tuples as the shortest row is long, none for no rows.
zip(rows) ==
    IF rows = <<>> THEN <<>>
    ELSE zip_from(rows, 1, zip_len(rows, 1))

_rotate_grid(grid, clockwise) ==
    IF clockwise THEN zip(reversed(grid)) ELSE reversed(zip(grid))

\* math.sumprod(c == "O" for c in row, range(len(row), 0, -1)) from index j on
RECURSIVE sumprod_from(_, _)
sumprod_from(row, j) ==
    IF j > Len(row) THEN 0
    ELSE (IF row[j] = "O" THEN Len(row) + 1 - j ELSE 0) + sumprod_from(row, j + 1)

RECURSIVE _weigh_grid_from(_, _)
_weigh_grid_from(rows, k) ==
    IF k > Len(rows) THEN 0
    ELSE sumprod_from(rows[k], 1) + _weigh_grid_from(rows, k + 1)

_weigh_grid(rows) == _weigh_grid_from(rows, 1)

\* for _ in range(4): grid = _rotate_grid(_tilt_grid(grid))
RECURSIVE four_grid_cycles(_, _)
four_grid_cycles(grid, n) ==
    IF n = 0 THEN grid
    ELSE four_grid_cycles(_rotate_grid(_tilt_grid(grid), TRUE), n - 1)

\* known_grids is the sequence of its keys in insertion order: the value of
\* the k-th key is k - 1.
known_grids_get(known_grids, grid) ==
    (CHOOSE k \in 1..Len(known_grids) : known_grids[k] = grid) - 1

\* The loop of part_2 over itertools.count(): cycle_end is Len(known_grids).
RECURSIVE day14_part_2_loop(_, _)
day14_part_2_loop(grid, known_grids) ==
    IF \E k \in 1..Len(known_grids) : known_grids[k] = grid
    THEN [grid |-> grid, known_grids |-> known_grids, cycle_end |-> Len(known_grids)]
    ELSE day14_part_2_loop(four_grid_cycles(grid, 4), Append(known_grids, grid))

day14_part_2(lines, total_cycles) ==
    LET end == day14_part_2_loop(_rotate_grid(lines, FALSE), <<>>)
        cycle_start == known_grids_get(end.known_grids, end.grid)
        v == cycle_start
               + PyMod(total_cycles - end.cycle_end, end.cycle_end - cycle_start)
    IN  _weigh_grid(end.known_grids[v + 1])

\* The grids of h rows of w characters.
D14Grids(h, w) == SeqsOf(SeqsOf({"O", "#", "."}, w), h)

InitDay14 ==
    /\ fn = "none"
    /\ \E h \in 0..D14MaxSide, w \in 1..D14MaxSide :
          args \in [lines : D14Grids(h, w), total_cycles : 0..D14MaxCycles]
    /\ ret = 0
    /\ NoDay20

Call_day14_part_2 ==
    /\ fn = "none"
    /\ fn' = "part_2"
    /\ ret' = day14_part_2(args.lines, args.total_cycles)
    /\ UNCHANGED <<args, day20vars>>

NextDay14 == Call_day14_part_2

SpecDay14 == InitDay14 /\ [][NextDay14]_vars

\* What the puzzle calls a tilt, written without the loop of _tilt_row:
\* between fixed rocks, the rolling rocks of a stretch lie at its start.
StretchStart(row, i) ==
    LET rocks == {j \in 1..i : row[j] = "#"}
    IN  IF rocks = {} THEN 1 ELSE (CHOOSE j \in rocks : \A m \in rocks : m <= j) + 1
StretchEnd(row, i) ==
    LET rocks == {j \in i..Len(row) : row[j] = "#"}
    IN  IF rocks = {} THEN Len(row) ELSE (CHOOSE j \in rocks : \A m \in rocks : j <= m) - 1
SettledAt(row, i) ==
    IF row[i] = "#" THEN "#"
    ELSE LET first == StretchStart(row, i)
             rolling == {j \in first..StretchEnd(row, i) : row[j] = "O"}
         IN  IF i - first < Cardinality(rolling) THEN "O" ELSE "."
RECURSIVE SettledFrom(_, _)
SettledFrom(row, i) ==
    IF i > Len(row) THEN <<>> ELSE <<SettledAt(row, i)>> \o SettledFrom(row, i + 1)
Settled(row) == SettledFrom(row, 1)
Columns(lines) == IF lines = <<>> THEN 0 ELSE Len(lines[1])
RECURSIVE ColumnFrom(_, _, _)
ColumnFrom(lines, j, i) ==
    IF i > Len(lines) THEN <<>> ELSE <<lines[i][j]>> \o ColumnFrom(lines, j, i + 1)
RECURSIVE TransposeFrom(_, _, _)
TransposeFrom(lines, j, columns) ==
    IF j > columns THEN <<>>
    ELSE <<ColumnFrom(lines, j, 1)>> \o TransposeFrom(lines, j + 1, columns)
TransposeOf(lines, rows, columns) == TransposeFrom(lines, 1, columns)
RECURSIVE Mirrored(_)
Mirrored(lines) ==
    IF lines = <<>> THEN <<>> ELSE <<reversed(Head(lines))>> \o Mirrored(Tail(lines))
RECURSIVE TiltWest(_)
TiltWest(lines) ==
    IF lines = <<>> THEN <<>> ELSE <<Settled(Head(lines))>> \o TiltWest(Tail(lines))
TiltEast(lines) == Mirrored(TiltWest(Mirrored(lines)))
TiltNorth(lines) ==
    TransposeOf(TiltWest(TransposeOf(lines, Len(lines), Columns(lines))),
                Columns(lines), Len(lines))
TiltSouth(lines) ==
    TransposeOf(TiltEast(TransposeOf(lines, Len(lines), Columns(lines))),
                Columns(lines), Len(lines))
SpinCycle(lines) == TiltEast(TiltSouth(TiltWest(TiltNorth(lines))))

RECURSIVE SpinCycles(_, _)
SpinCycles(lines, n) == IF n = 0 THEN lines ELSE SpinCycles(SpinCycle(lines), n - 1)

RECURSIVE NorthLoadFrom(_, _)
NorthLoadFrom(lines, i) ==
    IF i > Len(lines) THEN 0
    ELSE (Len(lines) + 1 - i) * Cardinality({j \in 1..Len(lines[i]) : lines[i][j] = "O"})
             + NorthLoadFrom(lines, i + 1)
NorthLoad(lines) == NorthLoadFrom(lines, 1)

\* The number of spin cycles before the first grid that comes back.
RECURSIVE CyclesBeforeRepetition(_, _)
CyclesBeforeRepetition(lines, seen) ==
    IF \E k \in 1..Len(seen) : seen[k] = lines
    THEN (CHOOSE k \in 1..Len(seen) : seen[k] = lines) - 1
    ELSE CyclesBeforeRepetition(SpinCycle(lines), Append(seen, lines))

\* C24: for every platform grid and every total_cycles >= 0, part_2 returns
\* the north load of the grid after exactly total_cycles spin cycles (tilt
\* north, west, south, east).
C24_Part2 ==
    fn = "part_2" => ret = NorthLoad(SpinCycles(args.lines, args.total_cycles))

\* What does hold: the same for every total_cycles that is at least the
\* number of spin cycles before the repeating grids begin.
C24_Part2FromRepetition ==
    (fn = "part_2" /\ args.total_cycles >= CyclesBeforeRepetition(args.lines, <<>>))
        => ret = NorthLoad(SpinCycles(args.lines, args.total_cycles))

-----------------------------------------------------------------------------
\* solutions/year2023/day12.py. A line is a sequence of the characters "#",
\* "." and "?"; groups is a sequence of block lengths.

D12MaxLine == 5      \* lines of 0..D12MaxLine characters
D12MaxGroups == 2    \* 0..D12MaxGroups blocks
D12MaxBlock == 3     \* block lengths: 1..D12MaxBlock

\* line[start:stop] with 0-based bounds start, stop >= 0
line_slice(line, start, stop) == SubSeq(line, start + 1, Min(stop, Len(line)))

\* any(c == char for c in line)
any_is(line, char) == \E k \in 1..Len(line) : line[k] = char

RECURSIVE sum(_)
sum(blocks) == IF blocks = <<>> THEN 0 ELSE Head(blocks) + sum(Tail(blocks))

RECURSIVE _permutations(_, _)
RECURSIVE _permutations_loop(_, _, _, _)

\* The for loop of _permutations from the given space on.
_permutations_loop(line, groups, space, result) ==
    LET block == Head(groups)
        other_blocks == Tail(groups)
        space_needed_for_other_blocks == Len(other_blocks) + sum(other_blocks)
    IN  IF space >= Len(line) - space_needed_for_other_blocks - block + 1 THEN result
        ELSE IF any_is(line_slice(line, 0, space), "#") THEN result
        ELSE IF \/ any_is(line_slice(line, space, space + block), ".")
                \/ (Len(line) > space + block /\ line[space + block + 1] = "#")
                \/ (other_blocks = <<>>
                      /\ any_is(line_slice(line, space + block, Len(line)), "#"))
             THEN _permutations_loop(line, groups, space + 1, result)
        ELSE _permutations_loop(line, groups, space + 1,
                 result + _permutations(line_slice(line, space + block + 1, Len(line)),
                                        other_blocks))

_permutations(line, groups) ==
    IF groups = <<>> THEN 1
    ELSE _permutations_loop(line, groups, 0, 0)

D12Lines == UNION {SeqsOf({"#", ".", "?"}, len) : len \in 0..D12MaxLine}
D12Groups == UNION {SeqsOf(1..D12MaxBlock, len) : len \in 0..D12MaxGroups}

InitDay12 ==
    /\ fn = "none"
    /\ args \in [line : D12Lines, groups : D12Groups]
    /\ ret = 0
    /\ NoDay20

Call__permutations ==
    /\ fn = "none"
    /\ fn' = "_permutations"
    /\ ret' = _permutations(args.line, args.groups)
    /\ UNCHANGED <<args, day20vars>>

NextDay12 == Call__permutations

SpecDay12 == InitDay12 /\ [][NextDay12]_vars

\* The lengths of the maximal runs of "#" of a line without "?", in order;
\* run is the length of the run that ends just before the line.
RECURSIVE RunLengthsFrom(_, _)
RunLengthsFrom(line, run) ==
    IF line = <<>> THEN (IF run > 0 THEN <<run>> ELSE <<>>)
    ELSE IF Head(line) = "#" THEN RunLengthsFrom(Tail(line), run + 1)
    ELSE (IF run > 0 THEN <<run>> ELSE <<>>) \o RunLengthsFrom(Tail(line), 0)

\* The ways to replace every "?" of the line by "#" or ".".
Replacements(line) ==
    {filled \in SeqsOf({"#", "."}, Len(line)) :
        \A k \in 1..Len(line) : line[k] # "?" => filled[k] = line[k]}

Arrangements(line, groups) ==
    Cardinality({filled \in Replacements(line) : RunLengthsFrom(filled, 0) = groups})

\* C25: for every line over "#", ".", "?" and every tuple of block lengths
\* (each >= 1), _permutations(line, groups) is the number of ways to replace
\* every "?" by "#" or "." such that the maximal runs of "#" have exactly the
\* lengths in groups, in that order.
C25_Permutations ==
    fn = "_permutations" => ret = Arrangements(args.line, args.groups)

\* What does hold: the same for every tuple of at least one block length.
C25_PermutationsOfBlocks ==
    (fn = "_permutations" /\ args.groups # <<>>)
        => ret = Arrangements(args.line, args.groups)

=============================================================================
